---- MODULE Spec2Model ----
(***************************************************************************)
(* A model of the consensus module of aecra/raft (src/raft/raft.go): the   *)
(* per-node state of ConsensusModule, its RPC handlers, the goroutines     *)
(* that send RPCs and handle their replies, the election timer, the        *)
(* replication loop, the Submit path and the apply worker.                 *)
(*                                                                         *)
(* Log indices are the Go indices (0-based, -1 for "none"); the TLA+       *)
(* sequence holding a log stores Go index i at position i+1.               *)
(***************************************************************************)
EXTENDS Integers, Sequences, FiniteSets, TLC

\* Cluster size: num := 3 in the tests; peerIds = {0, .., num-1}, self included.
N == 3
Nodes == 0 .. (N - 1)

\* CMState
Follower == "Follower"
Candidate == "Candidate"
Leader == "Leader"
Dead == "Dead"

\* votedFor = -1, and the index/term of an empty log
None == -1

\* Client commands (opaque to the consensus module)
Commands == {"x", "y"}

\* The value of a nil interface{} result
Nil == <<>>

\* The command of no call
NoCommand == "none"

\* Bounds of the model
MaxLog == 1
ElectionBudget == 2
HealedElections == 1
SubmitElections == 1
SubmitLogs == 2
MaxCalls == 4
MaxScript == 2
RollbackLog == 3

\* The number of entries of the log that the stale-reply schedule cuts
StaleLog == 2

\* Channel capacities
CommitReadyCap == 16
TriggerAECap == 1

VARIABLES
    state,          \* cm.state
    currentTerm,    \* cm.currentTerm
    votedFor,       \* cm.votedFor
    log,            \* cm.log
    commitIndex,    \* cm.commitIndex
    lastApplied,    \* cm.lastApplied
    nextIndex,      \* cm.nextIndex
    matchIndex,     \* cm.matchIndex
    elections,      \* per node, one record per startElection call: its
                    \* savedCurrentTerm and its closure variable votesReceived
    rvPending,      \* RequestVote goroutines spawned and not yet run
    aePending,      \* AppendEntries goroutines spawned and not yet run
    msgs,           \* RPC requests and replies in flight
    aeLoops,        \* per node, the runAEsTimer goroutines: how many wait in
                    \* the select, how many have left it with doSend set and
                    \* how many are about to call leaderSendAEs
    held,           \* per node, the channel send on which a goroutine is
                    \* blocked with cm.mu held, and what it does after it
    closed,         \* per node, whether newCommitReadyChan has been closed
    triggerAEChan,  \* per node, number of items buffered in cm.triggerAEChan
    newCommitReadyChan, \* per node, items buffered in cm.newCommitReadyChan
    worker,         \* per node, where commitChanSender is: "range" (at the
                    \* channel), "lock" (woken, before cm.mu.Lock), "apply"
                    \* (in the loop over its entries) or "done"
    applyQ,         \* per node, the entries the apply worker still has to apply
    resultOut,      \* per node, the CommittedResult the apply worker is sending
    applied,        \* per node, the commands passed to ApplyCommand, in order
    waiters,        \* Submit calls accepted by a leader and not yet returned
    ret,            \* the value returned by the Submit call that returned in
                    \* this step (NoRet if none did)
    leaderHist,     \* history: <<node, term>> for every startLeader
    commitHist,     \* history: <<index, entry, term>> for every index a node's
                    \* commitIndex came to cover, with the node's term then
    panicked,       \* the process ended in a Go runtime panic
    calculator,     \* a Calculator used directly: its map of stacks and
                    \* LastInstanceId
    calls,          \* the ApplyCommand calls made on it so far, each with
                    \* its Entry and the Result returned
    client          \* the caller of Cluster.Submit: the command it has
                    \* submitted, the server it tries next, and what its
                    \* earlier calls returned

vars == <<state, currentTerm, votedFor, log, commitIndex, lastApplied,
          nextIndex, matchIndex, elections, rvPending, aePending, msgs,
          aeLoops, held, closed, triggerAEChan, newCommitReadyChan, worker,
          applyQ, resultOut, applied, waiters, ret, leaderHist, commitHist, panicked,
          calculator, calls, client>>

\* The variables of the cluster
clusterVars == <<state, currentTerm, votedFor, log, commitIndex, lastApplied,
                 nextIndex, matchIndex, elections, rvPending, aePending, msgs,
                 aeLoops, held, closed, triggerAEChan, newCommitReadyChan,
                 worker, applyQ, resultOut, applied, waiters, ret, leaderHist,
                 commitHist, panicked, client>>

nodeVars == <<state, currentTerm, votedFor, log, commitIndex, lastApplied,
              nextIndex, matchIndex>>

NoRet == [node |-> None, ok |-> FALSE, result |-> Nil, cmd |-> NoCommand,
          index |-> None, waited |-> FALSE]
NoResult == [index |-> None, result |-> Nil]
NoMsg == [mtype |-> "none"]
NotHeld == [on |-> "none", reply |-> NoMsg, trig |-> FALSE]
NoClient == [cmd |-> NoCommand, server |-> 0, results |-> <<>>]

\* Cluster.Submit, after the Submit call on a server has returned r (NoRet: no
\* call has returned): a call that returned ok ends it with the result, another
\* makes it go on to the next server, and after the last server it returns
\* (nil, false)
ClientAfter(cl, r) ==
    IF cl.cmd = NoCommand \/ r.node = None THEN cl
    ELSE IF r.ok
    THEN [cmd |-> NoCommand, server |-> 0,
          results |-> Append(cl.results,
                             [cmd |-> cl.cmd, ok |-> TRUE, res |-> r.result])]
    ELSE IF cl.server + 1 < N THEN [cl EXCEPT !.server = @ + 1]
    ELSE [cmd |-> NoCommand, server |-> 0,
          results |-> Append(cl.results,
                             [cmd |-> cl.cmd, ok |-> FALSE, res |-> Nil])]

\* cm.mu of node n can be taken
Unlocked(n) == held[n].on = "none"

-----------------------------------------------------------------------------
\* Helpers

intMin(a, b) == IF a < b THEN a ELSE b

\* log[i] for a Go index i
EntryAt(l, i) == l[i + 1]

\* LogEntry{Command, Term}
LogEntry(c, t) == [Command |-> c, Term |-> t]

lastLogIndex(l) == Len(l) - 1
lastLogTerm(l) == IF Len(l) > 0 THEN EntryAt(l, Len(l) - 1).Term ELSE None

\* Server.Call: the transport carries a call only to another node (the cluster
\* connects node i to node j for i # j only); a call to oneself returns an error.
CallReaches(from, to) == from # to

\* The total number of elections started so far
ElectionsStarted == Len(elections[0]) + Len(elections[1]) + Len(elections[2])

-----------------------------------------------------------------------------
\* The calculator application

\* The instance ids and operands of the commands given to a calculator
InstanceIds == {1, 2}
Operands == {0, 10}

Entry(method, instanceId, operand) ==
    [Method |-> method, InstanceId |-> instanceId, Operand |-> operand]

Result(ok, value) == [Result |-> ok, Value |-> value]

\* The commands given to a calculator: every method on every instance id, and
\* a method it does not know
Entries ==
    {Entry("create", 0, 0), Entry("clear", 0, 0)} \cup
    { Entry("push", i, v) : i \in InstanceIds, v \in Operands } \cup
    { Entry(m, i, 0) : m \in {"delete", "pop", "add", "sub", "mul", "div",
                              "inc", "dec", "get"},
                       i \in InstanceIds }

\* Go's integer division, which truncates toward zero
Quotient(a, b) ==
    LET abs(x) == IF x < 0 THEN -x ELSE x
        q == abs(a) \div abs(b)
    IN  IF (a < 0) = (b < 0) THEN q ELSE -q

NewCalculator == [Calculator |-> [i \in {} |-> <<>>], LastInstanceId |-> 0]

\* The methods return the calculator after the call with the values returned
Returns(app, val, ok) == [app |-> app, val |-> val, ok |-> ok]

HasInstance(app, instanceId) == instanceId \in DOMAIN app.Calculator

createCalculator(app) ==
    LET id == app.LastInstanceId + 1
    IN  Returns([Calculator |-> [i \in DOMAIN app.Calculator \cup {id} |->
                                    IF i = id THEN <<>> ELSE app.Calculator[i]],
                 LastInstanceId |-> id],
                id, TRUE)

deleteCalculator(app, instanceId) ==
    IF ~HasInstance(app, instanceId) THEN Returns(app, 0, FALSE)
    ELSE Returns([app EXCEPT !.Calculator =
                     [i \in DOMAIN app.Calculator \ {instanceId} |->
                         app.Calculator[i]]],
                 0, TRUE)

push(app, instanceId, operand) ==
    IF ~HasInstance(app, instanceId) THEN Returns(app, 0, FALSE)
    ELSE Returns([app EXCEPT !.Calculator[instanceId] = Append(@, operand)],
                 0, TRUE)

pop(app, instanceId) ==
    IF ~HasInstance(app, instanceId) THEN Returns(app, 0, FALSE)
    ELSE IF Len(app.Calculator[instanceId]) = 0 THEN Returns(app, 0, FALSE)
    ELSE LET stack == app.Calculator[instanceId]
         IN  Returns([app EXCEPT !.Calculator[instanceId] =
                         SubSeq(stack, 1, Len(stack) - 1)],
                     stack[Len(stack)], TRUE)

\* add, sub and mul: two pops, then a push of the value computed from the
\* operands popped first (operand1) and second (operand2)
add(app, instanceId) ==
    IF ~HasInstance(app, instanceId) THEN Returns(app, 0, FALSE)
    ELSE IF Len(app.Calculator[instanceId]) < 2 THEN Returns(app, 0, FALSE)
    ELSE LET p1 == pop(app, instanceId)
             p2 == pop(p1.app, instanceId)
         IN  Returns(push(p2.app, instanceId, p1.val + p2.val).app,
                     p1.val + p2.val, TRUE)

sub(app, instanceId) ==
    IF ~HasInstance(app, instanceId) THEN Returns(app, 0, FALSE)
    ELSE IF Len(app.Calculator[instanceId]) < 2 THEN Returns(app, 0, FALSE)
    ELSE LET p1 == pop(app, instanceId)
             p2 == pop(p1.app, instanceId)
         IN  Returns(push(p2.app, instanceId, p1.val - p2.val).app,
                     p1.val - p2.val, TRUE)

mul(app, instanceId) ==
    IF ~HasInstance(app, instanceId) THEN Returns(app, 0, FALSE)
    ELSE IF Len(app.Calculator[instanceId]) < 2 THEN Returns(app, 0, FALSE)
    ELSE LET p1 == pop(app, instanceId)
             p2 == pop(p1.app, instanceId)
         IN  Returns(push(p2.app, instanceId, p1.val * p2.val).app,
                     p1.val * p2.val, TRUE)

\* div with the operands of a failed division pushed back as they were popped,
\* first operand1 and then operand2
divPushesBackReversed(app, instanceId) ==
    IF ~HasInstance(app, instanceId) THEN Returns(app, 0, FALSE)
    ELSE IF Len(app.Calculator[instanceId]) < 2 THEN Returns(app, 0, FALSE)
    ELSE LET p1 == pop(app, instanceId)
             p2 == pop(p1.app, instanceId)
         IN  IF p2.val = 0
             THEN Returns(push(push(p2.app, instanceId, p1.val).app,
                               instanceId, p2.val).app,
                          0, FALSE)
             ELSE Returns(push(p2.app, instanceId, Quotient(p1.val, p2.val)).app,
                          Quotient(p1.val, p2.val), TRUE)

\* div: operand1 is the top of the stack and operand2, the divisor, the element
\* under it; on a zero divisor both are pushed back, operand2 first
div(app, instanceId) ==
    IF ~HasInstance(app, instanceId) THEN Returns(app, 0, FALSE)
    ELSE IF Len(app.Calculator[instanceId]) < 2 THEN Returns(app, 0, FALSE)
    ELSE LET p1 == pop(app, instanceId)
             p2 == pop(p1.app, instanceId)
         IN  IF p2.val = 0
             THEN Returns(push(push(p2.app, instanceId, p2.val).app,
                               instanceId, p1.val).app,
                          0, FALSE)
             ELSE Returns(push(p2.app, instanceId, Quotient(p1.val, p2.val)).app,
                          Quotient(p1.val, p2.val), TRUE)

inc(app, instanceId) ==
    IF ~HasInstance(app, instanceId) THEN Returns(app, 0, FALSE)
    ELSE IF Len(app.Calculator[instanceId]) = 0 THEN Returns(app, 0, FALSE)
    ELSE LET p == pop(app, instanceId)
         IN  Returns(push(p.app, instanceId, p.val + 1).app, p.val + 1, TRUE)

dec(app, instanceId) ==
    IF ~HasInstance(app, instanceId) THEN Returns(app, 0, FALSE)
    ELSE IF Len(app.Calculator[instanceId]) = 0 THEN Returns(app, 0, FALSE)
    ELSE LET p == pop(app, instanceId)
         IN  Returns(push(p.app, instanceId, p.val - 1).app, p.val - 1, TRUE)

get(app, instanceId) ==
    IF ~HasInstance(app, instanceId) THEN Returns(app, 0, FALSE)
    ELSE IF Len(app.Calculator[instanceId]) = 0 THEN Returns(app, 0, FALSE)
    ELSE LET stack == app.Calculator[instanceId]
         IN  Returns(app, stack[Len(stack)], TRUE)

\* Calculator.ApplyCommand: the calculator after the command and the Result
\* returned
CalculatorApplyCommand(app, entry) ==
    LET id == entry.InstanceId
        r == CASE entry.Method = "create" -> createCalculator(app)
               [] entry.Method = "delete" -> deleteCalculator(app, id)
               [] entry.Method = "push" -> push(app, id, entry.Operand)
               [] entry.Method = "pop" -> pop(app, id)
               [] entry.Method = "add" -> add(app, id)
               [] entry.Method = "sub" -> sub(app, id)
               [] entry.Method = "mul" -> mul(app, id)
               [] entry.Method = "div" -> div(app, id)
               [] entry.Method = "inc" -> inc(app, id)
               [] entry.Method = "dec" -> dec(app, id)
               [] entry.Method = "get" -> get(app, id)
               [] OTHER -> Returns(app, 0, FALSE)
    IN  [app |-> r.app,
         result |-> IF entry.Method \in {"delete", "push"}
                    THEN Result(r.ok, 0)
                    ELSE Result(r.ok, r.val)]

\* A command is applied to the calculator
CalculatorCall(entry) ==
    /\ Len(calls) < MaxCalls
    /\ LET r == CalculatorApplyCommand(calculator, entry)
       IN  /\ calculator' = r.app
           /\ calls' = Append(calls, [entry |-> entry, result |-> r.result])
    /\ UNCHANGED clusterVars

-----------------------------------------------------------------------------
\* The calculator commands that clients submit to the cluster, by name
Script ==
    [create |-> Entry("create", 0, 0),
     push |-> Entry("push", 1, 10),
     pop |-> Entry("pop", 1, 0)]
CalculatorCommands == DOMAIN Script

\* The calculator after the commands of history, from a new one
RECURSIVE CalculatorAfter(_)
CalculatorAfter(history) ==
    IF history = <<>> THEN NewCalculator
    ELSE CalculatorApplyCommand(
             CalculatorAfter(SubSeq(history, 1, Len(history) - 1)),
             Script[history[Len(history)]]).app

\* Application.ApplyCommand: a deterministic application whose result depends
\* on the commands applied so far and on the command. For a calculator
\* command it is the calculator's Result, as <<Result, Value>>.
ApplyCommand(history, c) ==
    IF c \in Commands THEN <<Len(history) + 1, c>>
    ELSE LET r == CalculatorApplyCommand(CalculatorAfter(history), Script[c]).result
         IN  <<r.Result, r.Value>>

Init ==
    /\ state = [n \in Nodes |-> Follower]
    /\ currentTerm = [n \in Nodes |-> 0]
    /\ votedFor = [n \in Nodes |-> None]
    /\ log = [n \in Nodes |-> <<>>]
    /\ commitIndex = [n \in Nodes |-> -1]
    /\ lastApplied = [n \in Nodes |-> -1]
    /\ nextIndex = [n \in Nodes |-> [p \in Nodes |-> 0]]
    /\ matchIndex = [n \in Nodes |-> [p \in Nodes |-> 0]]
    /\ elections = [n \in Nodes |-> <<>>]
    /\ rvPending = {}
    /\ aePending = {}
    /\ msgs = {}
    /\ aeLoops = [n \in Nodes |-> [waiting |-> 0, sending |-> 0, calling |-> 0]]
    /\ held = [n \in Nodes |-> NotHeld]
    /\ closed = [n \in Nodes |-> FALSE]
    /\ triggerAEChan = [n \in Nodes |-> 0]
    /\ newCommitReadyChan = [n \in Nodes |-> 0]
    /\ worker = [n \in Nodes |-> "range"]
    /\ applyQ = [n \in Nodes |-> <<>>]
    /\ resultOut = [n \in Nodes |-> NoResult]
    /\ applied = [n \in Nodes |-> <<>>]
    /\ waiters = {}
    /\ ret = NoRet
    /\ leaderHist = {}
    /\ commitHist = {}
    /\ panicked = FALSE
    /\ calculator = NewCalculator
    /\ calls = <<>>
    /\ client = NoClient

-----------------------------------------------------------------------------
\* RPC messages

RequestVoteArgs(from, to, term, lli, llt, eid) ==
    [mtype |-> "RequestVoteArgs", from |-> from, to |-> to, Term |-> term,
     LastLogIndex |-> lli, LastLogTerm |-> llt, eid |-> eid]

\* from is the voter, to the candidate whose election eid sent the request
RequestVoteReply(from, to, term, granted, eid) ==
    [mtype |-> "RequestVoteReply", from |-> from, to |-> to, Term |-> term,
     VoteGranted |-> granted, eid |-> eid]

AppendEntriesArgs(from, to, term, pli, plt, entries, lc, ni) ==
    [mtype |-> "AppendEntriesArgs", from |-> from, to |-> to, Term |-> term,
     PrevLogIndex |-> pli, PrevLogTerm |-> plt, Entries |-> entries,
     LeaderCommit |-> lc, ni |-> ni]

\* from is the follower, to the leader; savedCurrentTerm, ni and nEntries are
\* the values the sending goroutine keeps for its reply handling
AppendEntriesReply(from, to, term, success, saved, ni, nEntries) ==
    [mtype |-> "AppendEntriesReply", from |-> from, to |-> to, Term |-> term,
     Success |-> success, savedCurrentTerm |-> saved, ni |-> ni,
     nEntries |-> nEntries]

\* The <<index, entry, term>> records of the indices that a move of the commit
\* index from oldC to newC newly covers in log l, at term t
NewlyCommitted(l, oldC, newC, t) ==
    { <<i, EntryAt(l, i), t>> : i \in { j \in (oldC + 1) .. newC : j < Len(l) } }

-----------------------------------------------------------------------------
\* Election

\* startElection, called by runElectionTimer with cm.mu held: one goroutine per
\* peer in peerIds is spawned (the one calling the node itself gets an error
\* from the transport and does nothing more)
startElection(n) ==
    /\ state' = [state EXCEPT ![n] = Candidate]
    /\ currentTerm' = [currentTerm EXCEPT ![n] = currentTerm[n] + 1]
    /\ votedFor' = [votedFor EXCEPT ![n] = n]
    /\ elections' = [elections EXCEPT ![n] =
                        Append(@, [term |-> currentTerm[n] + 1, votes |-> 1])]
    /\ rvPending' = rvPending \cup
                      { [from |-> n, to |-> p, eid |-> Len(elections[n]) + 1] :
                            p \in { q \in Nodes : CallReaches(n, q) } }

\* runElectionTimer: the tick at which the timeout has elapsed. Every entry
\* into Follower or Candidate and every change of term starts a timer for the
\* term then current, so one is live whenever the node is Follower or Candidate.
runElectionTimer(n) ==
    /\ Unlocked(n)
    /\ state[n] \in {Candidate, Follower}
    /\ startElection(n)
    /\ ret' = NoRet
    /\ UNCHANGED <<log, commitIndex, lastApplied, nextIndex, matchIndex,
                   aePending, msgs, aeLoops, held, closed, triggerAEChan,
                   newCommitReadyChan, worker, applyQ, resultOut, applied, waiters,
                   leaderHist, commitHist, panicked>>
    /\ UNCHANGED <<calculator, calls, client>>

\* The goroutine of startElection for one peer, up to its call: it reads the
\* log under the lock and sends the request with the election's saved term
SendRequestVote(g) ==
    /\ g \in rvPending
    /\ Unlocked(g.from)
    /\ rvPending' = rvPending \ {g}
    /\ msgs' = msgs \cup
                 { RequestVoteArgs(g.from, g.to, elections[g.from][g.eid].term,
                                   lastLogIndex(log[g.from]),
                                   lastLogTerm(log[g.from]), g.eid) }
    /\ ret' = NoRet
    /\ UNCHANGED <<nodeVars, elections, aePending, aeLoops, held, closed,
                   triggerAEChan, newCommitReadyChan, worker, applyQ, resultOut,
                   applied, waiters, leaderHist, commitHist, panicked>>
    /\ UNCHANGED <<calculator, calls, client>>

\* The vote decision with the comparison of the logs left out
VoteDecisionWithoutLog(n, m, term, voted) ==
    /\ term = m.Term
    /\ (voted = None \/ voted = m.from)

\* The vote decision of RequestVote, taken after a larger args.Term has been
\* adopted: term and voted are the voter's currentTerm and votedFor then
VoteDecision(n, m, term, voted) ==
    /\ term = m.Term
    /\ (voted = None \/ voted = m.from)
    /\ \/ m.LastLogTerm > lastLogTerm(log[n])
       \/ /\ m.LastLogTerm = lastLogTerm(log[n])
          /\ m.LastLogIndex >= lastLogIndex(log[n])

\* Whether an RPC handler adopts the term the request carries (becomeFollower)
TermOutOfDate(n, term) == term > currentTerm[n]

\* RequestVote RPC handler. A Dead node returns at once and leaves the reply
\* at its zero value.
RequestVote(m) ==
    /\ m \in msgs
    /\ m.mtype = "RequestVoteArgs"
    /\ Unlocked(m.to)
    /\ LET n == m.to
           upd == TermOutOfDate(n, m.Term)
           term1 == IF upd THEN m.Term ELSE currentTerm[n]
           voted1 == IF upd THEN None ELSE votedFor[n]
           grant == VoteDecision(n, m, term1, voted1)
       IN  IF state[n] = Dead
           THEN /\ msgs' = (msgs \ {m}) \cup
                             {RequestVoteReply(n, m.from, 0, FALSE, m.eid)}
                /\ UNCHANGED <<state, currentTerm, votedFor>>
           ELSE /\ state' = [state EXCEPT ![n] = IF upd THEN Follower ELSE @]
                /\ currentTerm' = [currentTerm EXCEPT ![n] = term1]
                /\ votedFor' = [votedFor EXCEPT ![n] =
                                   IF grant THEN m.from ELSE voted1]
                /\ msgs' = (msgs \ {m}) \cup
                             {RequestVoteReply(n, m.from, term1, grant, m.eid)}
    /\ ret' = NoRet
    /\ UNCHANGED <<log, commitIndex, lastApplied, nextIndex, matchIndex,
                   elections, rvPending, aePending, aeLoops, held, closed,
                   triggerAEChan, newCommitReadyChan, worker, applyQ, resultOut,
                   applied, waiters, leaderHist, commitHist, panicked>>
    /\ UNCHANGED <<calculator, calls, client>>

\* The election test of the reply handler
WinsElection(votes) == votes * 2 > N + 1

\* Whether the reply handler goes on past its first check
StillCandidate(n, saved) == state[n] = Candidate

\* The goroutine of startElection for one peer, from the return of its call:
\* (a, reply) handled with cm.mu held. startLeader is part of it.
RequestVoteReplyHandler(m) ==
    /\ m \in msgs
    /\ m.mtype = "RequestVoteReply"
    /\ Unlocked(m.to)
    /\ msgs' = msgs \ {m}
    /\ LET n == m.to
           saved == elections[n][m.eid].term
           votes == elections[n][m.eid].votes
       IN  IF ~StillCandidate(n, saved)
           THEN UNCHANGED <<state, currentTerm, votedFor, elections, nextIndex,
                            matchIndex, aeLoops, leaderHist>>
           ELSE IF m.Term > saved
           THEN \* becomeFollower(reply.Term)
                /\ state' = [state EXCEPT ![n] = Follower]
                /\ currentTerm' = [currentTerm EXCEPT ![n] = m.Term]
                /\ votedFor' = [votedFor EXCEPT ![n] = None]
                /\ UNCHANGED <<elections, nextIndex, matchIndex, aeLoops,
                               leaderHist>>
           ELSE IF m.Term = saved /\ m.VoteGranted
           THEN /\ elections' = [elections EXCEPT ![n][m.eid].votes = votes + 1]
                /\ IF WinsElection(votes + 1)
                   THEN \* startLeader
                        /\ state' = [state EXCEPT ![n] = Leader]
                        /\ nextIndex' = [nextIndex EXCEPT ![n] =
                                            [p \in Nodes |-> Len(log[n])]]
                        /\ matchIndex' = [matchIndex EXCEPT ![n] =
                                             [p \in Nodes |-> -1]]
                        /\ aeLoops' = [aeLoops EXCEPT ![n].calling = @ + 1]
                        /\ leaderHist' = leaderHist \cup {<<n, currentTerm[n]>>}
                   ELSE UNCHANGED <<state, nextIndex, matchIndex, aeLoops,
                                    leaderHist>>
                /\ UNCHANGED <<currentTerm, votedFor>>
           ELSE UNCHANGED <<state, currentTerm, votedFor, elections, nextIndex,
                            matchIndex, aeLoops, leaderHist>>
    /\ ret' = NoRet
    /\ UNCHANGED <<log, commitIndex, lastApplied, rvPending, aePending,
                   held, closed, triggerAEChan, newCommitReadyChan, worker, applyQ,
                   resultOut, applied, waiters, commitHist, panicked>>
    /\ UNCHANGED <<calculator, calls, client>>

-----------------------------------------------------------------------------
\* Replication

\* Sends on the channels made with cm.mu held. A send on a full channel blocks
\* its goroutine, which keeps the mutex; a send on a closed channel panics.
\* SendsAfterCommit(n, reply, trig) is the state of <<newCommitReadyChan,
\* triggerAEChan, held, msgs additions, panicked>> after a handler of node n
\* sends on newCommitReadyChan, then (trig) on triggerAEChan, then returns
\* reply (NoMsg for a reply handler).
SendsAfterCommit(n, reply, trig) ==
    IF closed[n]
    THEN [ready |-> newCommitReadyChan[n], trigger |-> triggerAEChan[n],
          held |-> NotHeld, out |-> {}, panic |-> TRUE]
    ELSE IF newCommitReadyChan[n] >= CommitReadyCap
    THEN [ready |-> newCommitReadyChan[n], trigger |-> triggerAEChan[n],
          held |-> [on |-> "newCommitReadyChan", reply |-> reply, trig |-> trig],
          out |-> {}, panic |-> FALSE]
    ELSE IF trig /\ triggerAEChan[n] >= TriggerAECap
    THEN [ready |-> newCommitReadyChan[n] + 1, trigger |-> triggerAEChan[n],
          held |-> [on |-> "triggerAEChan", reply |-> reply, trig |-> FALSE],
          out |-> {}, panic |-> FALSE]
    ELSE [ready |-> newCommitReadyChan[n] + 1,
          trigger |-> triggerAEChan[n] + (IF trig THEN 1 ELSE 0),
          held |-> NotHeld, out |-> {reply} \ {NoMsg}, panic |-> FALSE]

\* runAEsTimer, the select: the timer fires or an item is taken from
\* triggerAEChan (no mutex is needed for either)
runAEsTimerSelect(n, fromTrigger) ==
    /\ aeLoops[n].waiting > 0
    /\ IF fromTrigger
       THEN /\ triggerAEChan[n] > 0
            /\ triggerAEChan' = [triggerAEChan EXCEPT ![n] = @ - 1]
       ELSE UNCHANGED triggerAEChan
    /\ aeLoops' = [aeLoops EXCEPT ![n].waiting = @ - 1, ![n].sending = @ + 1]
    /\ ret' = NoRet
    /\ UNCHANGED <<nodeVars, elections, rvPending, aePending, msgs, held,
                   closed, newCommitReadyChan, worker, applyQ, resultOut, applied,
                   waiters, leaderHist, commitHist, panicked>>
    /\ UNCHANGED <<calculator, calls, client>>

\* runAEsTimer after the select (doSend is set): a loop that finds the node no
\* longer Leader exits, another goes on to call leaderSendAEs
runAEsTimerCheck(n) ==
    /\ aeLoops[n].sending > 0
    /\ Unlocked(n)
    /\ aeLoops' = [aeLoops EXCEPT ![n].sending = @ - 1,
                                  ![n].calling = @ + (IF state[n] = Leader
                                                      THEN 1 ELSE 0)]
    /\ ret' = NoRet
    /\ UNCHANGED <<nodeVars, elections, rvPending, aePending, msgs, held,
                   closed, triggerAEChan, newCommitReadyChan, worker, applyQ,
                   resultOut, applied, waiters, leaderHist, commitHist, panicked>>
    /\ UNCHANGED <<calculator, calls, client>>

\* leaderSendAEs up to the spawning of its goroutines, called by runAEsTimer on
\* entry and after every select: on a node that is not Leader it returns at
\* once; either way the loop goes (back) to its select
leaderSendAEs(n) ==
    /\ aeLoops[n].calling > 0
    /\ Unlocked(n)
    /\ aeLoops' = [aeLoops EXCEPT ![n].calling = @ - 1, ![n].waiting = @ + 1]
    /\ aePending' = IF state[n] = Leader
                    THEN aePending \cup
                           { [from |-> n, to |-> p,
                              savedCurrentTerm |-> currentTerm[n]] :
                                 p \in Nodes \ {n} }
                    ELSE aePending
    /\ ret' = NoRet
    /\ UNCHANGED <<nodeVars, elections, rvPending, msgs, held, closed,
                   triggerAEChan, newCommitReadyChan, worker, applyQ, resultOut,
                   applied, waiters, leaderHist, commitHist, panicked>>
    /\ UNCHANGED <<calculator, calls, client>>

\* The index expressions cm.log[prevLogIndex] and cm.log[ni:] are in range
SendIndicesInRange(l, ni) == ni >= 0 /\ ni <= Len(l)

\* The goroutine of leaderSendAEs for one peer, up to its call: out-of-range
\* indices end the process in a runtime panic
SendAppendEntries(g) ==
    /\ g \in aePending
    /\ Unlocked(g.from)
    /\ aePending' = aePending \ {g}
    /\ LET n == g.from
           ni == nextIndex[n][g.to]
           prevLogIndex == ni - 1
           prevLogTerm == IF prevLogIndex >= 0
                          THEN EntryAt(log[n], prevLogIndex).Term ELSE -1
           entries == SubSeq(log[n], ni + 1, Len(log[n]))
       IN  IF SendIndicesInRange(log[n], ni)
           THEN /\ msgs' = msgs \cup
                     { AppendEntriesArgs(n, g.to, g.savedCurrentTerm,
                                         prevLogIndex, prevLogTerm, entries,
                                         commitIndex[n], ni) }
                /\ UNCHANGED panicked
           ELSE /\ panicked' = TRUE
                /\ UNCHANGED msgs
    /\ ret' = NoRet
    /\ UNCHANGED <<nodeVars, elections, rvPending, aeLoops, held, closed,
                   triggerAEChan, newCommitReadyChan, worker, applyQ, resultOut,
                   applied, waiters, leaderHist, commitHist>>
    /\ UNCHANGED <<calculator, calls, client>>

\* The consistency check of AppendEntries
ConsistencyCheck(l, m) ==
    \/ m.PrevLogIndex = -1
    \/ /\ m.PrevLogIndex < Len(l)
       /\ m.PrevLogTerm = EntryAt(l, m.PrevLogIndex).Term

\* The number of leading entries of es whose terms agree with the entries of l
\* from index pli + 1 on (newEntriesIndex at the end of the handler's loop)
MatchLen(l, pli, es) ==
    LET Agree(k) == \A j \in 0 .. (k - 1) :
                        /\ pli + 1 + j < Len(l)
                        /\ EntryAt(l, pli + 1 + j).Term = es[j + 1].Term
    IN  CHOOSE k \in 0 .. Len(es) :
            /\ Agree(k)
            /\ \A k2 \in (k + 1) .. Len(es) : ~Agree(k2)

\* The log after the handler has inserted the entries of m
ReconcileLog(l, m) ==
    LET k == MatchLen(l, m.PrevLogIndex, m.Entries)
    IN  IF k < Len(m.Entries)
        THEN SubSeq(l, 1, m.PrevLogIndex + 1 + k) \o
             SubSeq(m.Entries, k + 1, Len(m.Entries))
        ELSE l

\* The follower's commit index after an accepted AppendEntries
FollowerCommit(c, leaderCommit, l) ==
    IF leaderCommit > c THEN intMin(leaderCommit, Len(l) - 1) ELSE c

\* AppendEntries RPC handler
AppendEntries(m) ==
    /\ m \in msgs
    /\ m.mtype = "AppendEntriesArgs"
    /\ Unlocked(m.to)
    /\ LET n == m.to
           upd == TermOutOfDate(n, m.Term)
           term1 == IF upd THEN m.Term ELSE currentTerm[n]
           sameTerm == m.Term = term1
           \* becomeFollower, from either call, resets votedFor
           reset == upd \/ (sameTerm /\ state[n] # Follower)
           ok == sameTerm /\ ConsistencyCheck(log[n], m)
           log1 == IF ok THEN ReconcileLog(log[n], m) ELSE log[n]
           commit1 == IF ok THEN FollowerCommit(commitIndex[n], m.LeaderCommit, log1)
                      ELSE commitIndex[n]
           signal == ok /\ m.LeaderCommit > commitIndex[n]
           reply == AppendEntriesReply(n, m.from, term1, ok, m.Term, m.ni,
                                       Len(m.Entries))
           snd == SendsAfterCommit(n, reply, FALSE)
       IN  IF state[n] = Dead
           THEN /\ msgs' = (msgs \ {m}) \cup
                     {AppendEntriesReply(n, m.from, 0, FALSE, m.Term, m.ni,
                                         Len(m.Entries))}
                /\ UNCHANGED <<state, currentTerm, votedFor, log, commitIndex,
                               newCommitReadyChan, held, commitHist, panicked>>
           ELSE /\ state' = [state EXCEPT ![n] = IF reset THEN Follower ELSE @]
                /\ currentTerm' = [currentTerm EXCEPT ![n] = term1]
                /\ votedFor' = [votedFor EXCEPT ![n] = IF reset THEN None ELSE @]
                /\ log' = [log EXCEPT ![n] = log1]
                /\ commitIndex' = [commitIndex EXCEPT ![n] = commit1]
                /\ commitHist' = commitHist \cup
                       NewlyCommitted(log1, commitIndex[n], commit1, term1)
                /\ IF signal
                   THEN /\ newCommitReadyChan' =
                               [newCommitReadyChan EXCEPT ![n] = snd.ready]
                        /\ held' = [held EXCEPT ![n] = snd.held]
                        /\ msgs' = (msgs \ {m}) \cup snd.out
                        /\ panicked' = snd.panic
                   ELSE /\ msgs' = (msgs \ {m}) \cup {reply}
                        /\ UNCHANGED <<newCommitReadyChan, held, panicked>>
    /\ ret' = NoRet
    /\ UNCHANGED <<lastApplied, nextIndex, matchIndex, elections, rvPending,
                   aePending, aeLoops, closed, triggerAEChan, worker, applyQ, resultOut,
                   applied, waiters, leaderHist>>
    /\ UNCHANGED <<calculator, calls, client>>

\* matchCount of the reply handler for index i: 1, plus one for every id in
\* peerIds (the node's own id is one of them) whose matchIndex is at least i
MatchCount(mi, i) == 1 + Cardinality({ p \in Nodes : mi[p] >= i })

\* The commit test of the reply handler
CommitQuorum(count) == count * 2 > N + 1

\* The leader's commit index after the scan of the reply handler, with
\* matchIndex mi
LeaderCommit(n, mi) ==
    LET ok == { i \in (commitIndex[n] + 1) .. (Len(log[n]) - 1) :
                    /\ EntryAt(log[n], i).Term = currentTerm[n]
                    /\ CommitQuorum(MatchCount(mi, i)) }
    IN  IF ok = {} THEN commitIndex[n]
        ELSE CHOOSE i \in ok : \A j \in ok : j <= i

\* Whether the reply handler updates the leader's tables
ReplyAccepted(n, m) == state[n] = Leader /\ m.savedCurrentTerm = m.Term

\* The goroutine of leaderSendAEs for one peer, from the return of its call
AppendEntriesReplyHandler(m) ==
    /\ m \in msgs
    /\ m.mtype = "AppendEntriesReply"
    /\ Unlocked(m.to)
    /\ msgs' = msgs \ {m}
    /\ LET n == m.to
           ni1 == [nextIndex[n] EXCEPT ![m.from] = m.ni + m.nEntries]
           mi1 == [matchIndex[n] EXCEPT ![m.from] = m.ni + m.nEntries - 1]
           commit1 == LeaderCommit(n, mi1)
           snd == SendsAfterCommit(n, NoMsg, TRUE)
       IN  IF m.Term > currentTerm[n]
           THEN \* becomeFollower(reply.Term)
                /\ state' = [state EXCEPT ![n] = Follower]
                /\ currentTerm' = [currentTerm EXCEPT ![n] = m.Term]
                /\ votedFor' = [votedFor EXCEPT ![n] = None]
                /\ UNCHANGED <<nextIndex, matchIndex, commitIndex, commitHist,
                               newCommitReadyChan, triggerAEChan, held, panicked>>
           ELSE IF ReplyAccepted(n, m) /\ m.Success
           THEN /\ nextIndex' = [nextIndex EXCEPT ![n] = ni1]
                /\ matchIndex' = [matchIndex EXCEPT ![n] = mi1]
                /\ commitIndex' = [commitIndex EXCEPT ![n] = commit1]
                /\ commitHist' = commitHist \cup
                       NewlyCommitted(log[n], commitIndex[n], commit1, currentTerm[n])
                /\ IF commit1 # commitIndex[n]
                   THEN /\ newCommitReadyChan' =
                               [newCommitReadyChan EXCEPT ![n] = snd.ready]
                        /\ triggerAEChan' = [triggerAEChan EXCEPT ![n] = snd.trigger]
                        /\ held' = [held EXCEPT ![n] = snd.held]
                        /\ panicked' = snd.panic
                   ELSE UNCHANGED <<newCommitReadyChan, triggerAEChan, held, panicked>>
                /\ UNCHANGED <<state, currentTerm, votedFor>>
           ELSE IF ReplyAccepted(n, m)
           THEN /\ nextIndex' = [nextIndex EXCEPT ![n][m.from] = m.ni - 1]
                /\ UNCHANGED <<state, currentTerm, votedFor, matchIndex,
                               commitIndex, commitHist, newCommitReadyChan,
                               triggerAEChan, held, panicked>>
           ELSE UNCHANGED <<state, currentTerm, votedFor, nextIndex, matchIndex,
                            commitIndex, commitHist, newCommitReadyChan,
                            triggerAEChan, held, panicked>>
    /\ ret' = NoRet
    /\ UNCHANGED <<log, lastApplied, elections, rvPending, aePending, aeLoops,
                   closed, worker, applyQ, resultOut, applied, waiters, leaderHist>>
    /\ UNCHANGED <<calculator, calls, client>>

\* A goroutine blocked on a channel send with cm.mu held completes the send
\* once the channel has room, makes the sends that follow and returns
CompleteSend(n) ==
    /\ held[n].on # "none"
    /\ IF held[n].on = "newCommitReadyChan"
       THEN /\ newCommitReadyChan[n] < CommitReadyCap
            /\ newCommitReadyChan' = [newCommitReadyChan EXCEPT ![n] = @ + 1]
            /\ IF held[n].trig /\ triggerAEChan[n] >= TriggerAECap
               THEN /\ held' = [held EXCEPT ![n] =
                                  [on |-> "triggerAEChan", reply |-> NoMsg,
                                   trig |-> FALSE]]
                    /\ UNCHANGED <<triggerAEChan, msgs>>
               ELSE /\ held' = [held EXCEPT ![n] = NotHeld]
                    /\ triggerAEChan' = [triggerAEChan EXCEPT ![n] =
                                            @ + (IF held[n].trig THEN 1 ELSE 0)]
                    /\ msgs' = msgs \cup ({held[n].reply} \ {NoMsg})
       ELSE /\ triggerAEChan[n] < TriggerAECap
            /\ triggerAEChan' = [triggerAEChan EXCEPT ![n] = @ + 1]
            /\ held' = [held EXCEPT ![n] = NotHeld]
            /\ UNCHANGED <<newCommitReadyChan, msgs>>
    /\ ret' = NoRet
    /\ UNCHANGED <<nodeVars, elections, rvPending, aePending, aeLoops, closed,
                   worker, applyQ, resultOut, applied, waiters, leaderHist, commitHist,
                   panicked>>
    /\ UNCHANGED <<calculator, calls, client>>

-----------------------------------------------------------------------------
\* Submit and the apply worker

\* Submit with the test of cm.state replaced by a test that the node is alive
SubmitAcceptsAnyLive(n) == state[n] # Dead

\* Whether Submit appends the command and waits for its result
SubmitAccepts(n) == state[n] = Leader

\* Submit, up to the release of cm.mu: on a leader the command is appended and
\* the caller goes on to its send on triggerAEChan; on any other node the call
\* returns (nil, false)
Submit(n, c) ==
    /\ Unlocked(n)
    /\ IF SubmitAccepts(n)
       THEN /\ log' = [log EXCEPT ![n] = Append(@, LogEntry(c, currentTerm[n]))]
            /\ waiters' = waiters \cup
                  { [node |-> n, index |-> Len(log[n]), cmd |-> c,
                     pc |-> "trigger", got |-> NoResult] }
            /\ ret' = NoRet
       ELSE /\ ret' = [node |-> n, ok |-> FALSE, result |-> Nil, cmd |-> c,
                       index |-> None, waited |-> FALSE]
            /\ UNCHANGED <<log, waiters>>
    /\ UNCHANGED <<state, currentTerm, votedFor, commitIndex, lastApplied,
                   nextIndex, matchIndex, elections, rvPending, aePending, msgs,
                   aeLoops, held, closed, triggerAEChan, newCommitReadyChan,
                   worker, applyQ, resultOut, applied, leaderHist, commitHist,
                   panicked>>
    /\ UNCHANGED <<calculator, calls>>
    /\ client' = ClientAfter(client, ret')

\* Submit: cm.triggerAEChan <- struct{}{}, made without the mutex and before
\* the ticker is created
SubmitTrigger(w) ==
    /\ w \in waiters
    /\ w.pc = "trigger"
    /\ triggerAEChan[w.node] < TriggerAECap
    /\ triggerAEChan' = [triggerAEChan EXCEPT ![w.node] = @ + 1]
    /\ waiters' = (waiters \ {w}) \cup {[w EXCEPT !.pc = "select"]}
    /\ ret' = NoRet
    /\ UNCHANGED <<nodeVars, elections, rvPending, aePending, msgs, aeLoops,
                   held, closed, newCommitReadyChan, worker, applyQ, resultOut,
                   applied, leaderHist, commitHist, panicked>>
    /\ UNCHANGED <<calculator, calls, client>>

\* Submit: the ticker case of the select
SubmitTimeout(w) ==
    /\ w \in waiters
    /\ w.pc = "select"
    /\ waiters' = waiters \ {w}
    /\ ret' = [node |-> w.node, ok |-> FALSE, result |-> Nil, cmd |-> w.cmd,
               index |-> w.index, waited |-> TRUE]
    /\ UNCHANGED <<nodeVars, elections, rvPending, aePending, msgs, aeLoops,
                   held, closed, triggerAEChan, newCommitReadyChan, worker,
                   applyQ, resultOut, applied, leaderHist, commitHist, panicked>>
    /\ UNCHANGED <<calculator, calls>>
    /\ client' = ClientAfter(client, ret')

\* The sender on committedResultChan that is the apply worker
ApplyWorker == [node |-> None, index |-> None, cmd |-> NoCommand, pc |-> "worker",
                got |-> NoResult]

\* Whether the result taken from committedResultChan is the caller's
ResultIsMine(w, r) == r.index = w.index

\* Submit: the receive case of the select. committedResultChan is unbuffered:
\* the value comes from a goroutine blocked in a send on it, which is the
\* apply worker (from = ApplyWorker) or another caller putting a result back.
SubmitReceive(w, from) ==
    /\ w \in waiters
    /\ w.pc = "select"
    /\ \/ /\ from = ApplyWorker
          /\ resultOut[w.node] # NoResult
       \/ /\ from \in waiters
          /\ from # w
          /\ from.node = w.node
          /\ from.pc = "resend"
    /\ LET r == IF from = ApplyWorker THEN resultOut[w.node] ELSE from.got
           rest == IF from = ApplyWorker THEN waiters \ {w}
                   ELSE (waiters \ {w, from}) \cup
                        {[from EXCEPT !.pc = "select", !.got = NoResult]}
       IN  /\ resultOut' = IF from = ApplyWorker
                           THEN [resultOut EXCEPT ![w.node] = NoResult]
                           ELSE resultOut
           /\ worker' = IF from = ApplyWorker /\ applyQ[w.node] = <<>>
                        THEN [worker EXCEPT ![w.node] = "range"]
                        ELSE worker
           /\ IF ResultIsMine(w, r)
              THEN /\ waiters' = rest
                   /\ ret' = [node |-> w.node, ok |-> TRUE, result |-> r.result,
                              cmd |-> w.cmd, index |-> w.index, waited |-> TRUE]
              ELSE /\ waiters' = rest \cup
                                   {[w EXCEPT !.pc = "resend", !.got = r]}
                   /\ ret' = NoRet
    /\ UNCHANGED <<nodeVars, elections, rvPending, aePending, msgs, aeLoops,
                   held, closed, triggerAEChan, newCommitReadyChan, applyQ,
                   applied, leaderHist, commitHist, panicked>>
    /\ UNCHANGED <<calculator, calls>>
    /\ client' = ClientAfter(client, ret')

\* commitChanSender at "for range cm.newCommitReadyChan": an item is taken, or
\* the channel is closed and empty and the worker ends
commitChanSenderRange(n) ==
    /\ worker[n] = "range"
    /\ IF newCommitReadyChan[n] > 0
       THEN /\ newCommitReadyChan' = [newCommitReadyChan EXCEPT ![n] = @ - 1]
            /\ worker' = [worker EXCEPT ![n] = "lock"]
       ELSE /\ closed[n]
            /\ worker' = [worker EXCEPT ![n] = "done"]
            /\ UNCHANGED newCommitReadyChan
    /\ ret' = NoRet
    /\ UNCHANGED <<nodeVars, elections, rvPending, aePending, msgs, aeLoops,
                   held, closed, triggerAEChan, applyQ, resultOut, applied,
                   waiters, leaderHist, commitHist, panicked>>
    /\ UNCHANGED <<calculator, calls, client>>

\* The slice expression cm.log[cm.lastApplied+1 : cm.commitIndex+1] is in range
SliceInRange(n) == commitIndex[n] + 1 <= Len(log[n])

\* The slice taken with lastApplied forgotten: every entry up to commitIndex
EntriesFromStart(n) ==
    [k \in 1 .. (commitIndex[n] + 1) |->
        [index |-> k - 1, entry |-> EntryAt(log[n], k - 1)]]

\* entries = cm.log[cm.lastApplied+1 : cm.commitIndex+1], each with the index
\* savedLastApplied + i + 1 the loop gives it
EntriesToApply(n) ==
    [k \in 1 .. (commitIndex[n] - lastApplied[n]) |->
        [index |-> lastApplied[n] + k,
         entry |-> EntryAt(log[n], lastApplied[n] + k)]]

\* commitChanSender, the part under cm.mu: the entries to apply are taken and
\* lastApplied is advanced
commitChanSenderTake(n) ==
    /\ worker[n] = "lock"
    /\ Unlocked(n)
    /\ IF commitIndex[n] > lastApplied[n]
       THEN IF SliceInRange(n)
            THEN /\ applyQ' = [applyQ EXCEPT ![n] = EntriesToApply(n)]
                 /\ lastApplied' = [lastApplied EXCEPT ![n] = commitIndex[n]]
                 /\ worker' = [worker EXCEPT ![n] = "apply"]
                 /\ UNCHANGED panicked
            ELSE /\ panicked' = TRUE
                 /\ UNCHANGED <<applyQ, lastApplied, worker>>
       ELSE /\ worker' = [worker EXCEPT ![n] = "range"]
            /\ UNCHANGED <<applyQ, lastApplied, panicked>>
    /\ ret' = NoRet
    /\ UNCHANGED <<state, currentTerm, votedFor, log, commitIndex, nextIndex,
                   matchIndex, elections, rvPending, aePending, msgs, aeLoops,
                   held, closed, triggerAEChan, newCommitReadyChan, resultOut,
                   applied, waiters, leaderHist, commitHist>>
    /\ UNCHANGED <<calculator, calls, client>>

\* Whether the apply worker sends the result on committedResultChan
WorkerReports(n) == state[n] = Leader

\* commitChanSender, one turn of the loop over its entries, made without the
\* mutex: the entry is applied and, on a leader, its result is sent. The
\* entries are a slice of the log's array, which AppendEntries may overwrite
\* in place meanwhile: the entry read is the one taken under the lock or
\* (inPlace) the one now stored at that index.
commitChanSenderApply(n, inPlace) ==
    /\ worker[n] = "apply"
    /\ applyQ[n] # <<>>
    /\ resultOut[n] = NoResult
    /\ inPlace => Head(applyQ[n]).index < Len(log[n])
    /\ LET e == Head(applyQ[n])
           entry == IF inPlace THEN EntryAt(log[n], e.index) ELSE e.entry
           res == ApplyCommand(applied[n], entry.Command)
       IN  /\ applied' = [applied EXCEPT ![n] = Append(@, entry.Command)]
           /\ applyQ' = [applyQ EXCEPT ![n] = Tail(@)]
           /\ IF WorkerReports(n)
              THEN /\ resultOut' = [resultOut EXCEPT ![n] =
                                       [index |-> e.index, result |-> res]]
                   /\ UNCHANGED worker
              ELSE /\ worker' = [worker EXCEPT ![n] =
                                   IF Tail(applyQ[n]) = <<>> THEN "range" ELSE @]
                   /\ UNCHANGED resultOut
    /\ ret' = NoRet
    /\ UNCHANGED <<nodeVars, elections, rvPending, aePending, msgs, aeLoops,
                   held, closed, triggerAEChan, newCommitReadyChan, waiters,
                   leaderHist, commitHist, panicked>>
    /\ UNCHANGED <<calculator, calls, client>>

\* Stop: closing a channel that is already closed panics
Stop(n) ==
    /\ Unlocked(n)
    /\ state' = [state EXCEPT ![n] = Dead]
    /\ closed' = [closed EXCEPT ![n] = TRUE]
    /\ panicked' = closed[n]
    /\ ret' = NoRet
    /\ UNCHANGED <<currentTerm, votedFor, log, commitIndex, lastApplied,
                   nextIndex, matchIndex, elections, rvPending, aePending, msgs,
                   aeLoops, held, triggerAEChan, newCommitReadyChan, worker,
                   applyQ, resultOut, applied, waiters, leaderHist, commitHist>>
    /\ UNCHANGED <<calculator, calls, client>>

\* Server.Call returns an error: the request or the reply is lost, and the
\* calling goroutine does nothing more
CallFails(x) ==
    /\ \/ /\ x \in msgs
          /\ msgs' = msgs \ {x}
          /\ UNCHANGED <<rvPending, aePending>>
       \/ /\ x \in rvPending
          /\ rvPending' = rvPending \ {x}
          /\ UNCHANGED <<msgs, aePending>>
       \/ /\ x \in aePending
          /\ aePending' = aePending \ {x}
          /\ UNCHANGED <<msgs, rvPending>>
    /\ ret' = NoRet
    /\ UNCHANGED <<nodeVars, elections, aeLoops, held, closed, triggerAEChan,
                   newCommitReadyChan, worker, applyQ, resultOut, applied,
                   waiters, leaderHist, commitHist, panicked>>
    /\ UNCHANGED <<calculator, calls, client>>

-----------------------------------------------------------------------------
\* Specifications

\* The AppendEntries calls of leader n to peer p that are under way
AECalls(n, p) ==
    { g \in aePending : g.from = n /\ g.to = p } \cup
    { m \in msgs : \/ m.mtype = "AppendEntriesArgs" /\ m.from = n /\ m.to = p
                   \/ m.mtype = "AppendEntriesReply" /\ m.from = p /\ m.to = n }

\* A round of AppendEntries calls of leader n has not ended
RoundUnderWay(n) == \E p \in Nodes : AECalls(n, p) # {}

\* No RPC goroutine is waiting to run
NoPending == rvPending = {} /\ aePending = {}

\* The nodes whose election timeout elapses
Electors == {0, 1}

\* The election timeout of node n may still elapse
MayTimeOut(n) == n \in Electors /\ Len(elections[n]) < ElectionBudget

\* Elections alone: the timers, the RequestVote goroutines and handlers, with
\* every spawned goroutine running before anything else does
ElectionNext ==
    \/ \E g \in rvPending : SendRequestVote(g)
    \/ \E n \in Nodes : NoPending /\ MayTimeOut(n) /\ runElectionTimer(n)
    \/ \E m \in msgs : NoPending /\ RequestVote(m)
    \/ \E m \in msgs : NoPending /\ RequestVoteReplyHandler(m)

SpecElection == Init /\ [][ElectionNext]_vars

\* The command the client of node n submits
ClientCommand(n) == IF n = 0 THEN "x" ELSE "y"

\* A goroutine of node n can take a step that needs no message, timer or client
LocalStepReady(n) ==
    \/ \E w \in waiters : /\ w.node = n
                          /\ w.pc = "trigger"
                          /\ triggerAEChan[n] < TriggerAECap
    \/ worker[n] = "range" /\ newCommitReadyChan[n] > 0
    \/ worker[n] = "lock" /\ Unlocked(n)
    \/ worker[n] = "apply" /\ applyQ[n] # <<>> /\ resultOut[n] = NoResult
    \/ aeLoops[n].sending > 0 /\ Unlocked(n)
    \/ aeLoops[n].calling > 0 /\ Unlocked(n) /\ ~RoundUnderWay(n)

\* Every goroutine waits for a message, a timer or a client
Quiet == NoPending /\ \A n \in Nodes : ~LocalStepReady(n)

\* A split-brain schedule. The replies to the first elections are slow: they
\* arrive after the candidate's last timeout. The calls of the last elections
\* within ElectionBudget fail (the peers cannot be reached). After that the
\* network is sound, and a timeout elapses again only once an entry has been
\* committed and no call is under way.
SlowVote(m) == m.eid < ElectionBudget
VoteArrives(m) ==
    /\ m.mtype = "RequestVoteReply"
    /\ SlowVote(m) => Len(elections[m.to]) >= ElectionBudget
Partitioned(g) == g.eid = ElectionBudget
TimesOutAgain(n) ==
    /\ n \in Electors
    /\ Len(elections[n]) >= ElectionBudget
    /\ Len(elections[n]) < ElectionBudget + HealedElections
    /\ commitHist # {}
    /\ msgs = {}

\* The cluster under the split-brain schedule: goroutines run as soon as they
\* can, a leader starts a round of calls when its last one has ended, the
\* heartbeat and Submit timers do not fire, clients call Submit on leaders
SplitBrainNext ==
    \/ \E g \in rvPending : ~Partitioned(g) /\ SendRequestVote(g)
    \/ \E g \in rvPending : Partitioned(g) /\ CallFails(g)
    \/ \E g \in aePending : SendAppendEntries(g)
    \/ NoPending /\ \E w \in waiters : SubmitTrigger(w)
    \/ NoPending /\ \E n \in Nodes : commitChanSenderRange(n)
    \/ NoPending /\ \E n \in Nodes : commitChanSenderTake(n)
    \/ NoPending /\ \E n \in Nodes, b \in BOOLEAN : commitChanSenderApply(n, b)
    \/ NoPending /\ \E n \in Nodes : runAEsTimerCheck(n)
    \/ NoPending /\ \E n \in Nodes : ~RoundUnderWay(n) /\ leaderSendAEs(n)
    \/ Quiet /\ \E n \in Nodes : MayTimeOut(n) /\ runElectionTimer(n)
    \/ Quiet /\ \E n \in Nodes : TimesOutAgain(n) /\ runElectionTimer(n)
    \/ Quiet /\ \E m \in msgs : RequestVote(m)
    \/ Quiet /\ \E m \in msgs : VoteArrives(m) /\ RequestVoteReplyHandler(m)
    \/ Quiet /\ \E n \in Nodes : runAEsTimerSelect(n, TRUE)
    \/ Quiet /\ \E m \in msgs : AppendEntries(m)
    \/ Quiet /\ \E m \in msgs : AppendEntriesReplyHandler(m)
    \/ Quiet /\ \E n \in Nodes :
          SubmitAccepts(n) /\ Len(log[n]) < MaxLog /\ Submit(n, ClientCommand(n))
    \/ Quiet /\ \E w \in waiters, from \in waiters \cup {ApplyWorker} :
          SubmitReceive(w, from)

SpecSplitBrain == Init /\ [][SplitBrainNext]_vars

\* A stale-leader schedule. The replies to the first election of a laggard
\* are slow: they arrive after its next timeout. Every other RequestVote call
\* is made and answered at once, and an election timeout elapses only while
\* no other call is under way.
Laggards == {1}
LaggardVote(m) ==
    m.mtype = "RequestVoteReply" /\ m.to \in Laggards /\ m.eid = 1
VoteCallUnderWay ==
    \E m \in msgs : \/ m.mtype = "RequestVoteArgs"
                    \/ m.mtype = "RequestVoteReply" /\ ~LaggardVote(m)
Calm == \A m \in msgs : LaggardVote(m)

\* The apply worker of node n is about to apply an entry
ApplyReady(n) ==
    worker[n] = "apply" /\ applyQ[n] # <<>> /\ resultOut[n] = NoResult

\* Every goroutine waits for a message, a timer or a client, or is the apply
\* worker about to call ApplyCommand
Settled ==
    /\ NoPending
    /\ ~VoteCallUnderWay
    /\ \A n \in Nodes : LocalStepReady(n) => ApplyReady(n)

\* The cluster under the stale-leader schedule: goroutines other than a
\* worker applying an entry run as soon as they can, a leader starts a round
\* of calls when its last one has ended, the heartbeat timer does not fire,
\* clients call Submit on leaders
StaleLeaderNext ==
    \/ \E g \in rvPending : SendRequestVote(g)
    \/ \E g \in aePending : SendAppendEntries(g)
    \/ NoPending /\ \E m \in msgs : RequestVote(m)
    \/ NoPending /\ \E m \in msgs : ~LaggardVote(m) /\ RequestVoteReplyHandler(m)
    \/ NoPending /\ \E w \in waiters : SubmitTrigger(w)
    \/ NoPending /\ \E n \in Nodes : commitChanSenderRange(n)
    \/ NoPending /\ \E n \in Nodes : commitChanSenderTake(n)
    \/ NoPending /\ \E n \in Nodes : runAEsTimerCheck(n)
    \/ NoPending /\ \E n \in Nodes : ~RoundUnderWay(n) /\ leaderSendAEs(n)
    \/ Settled /\ \E n \in Nodes, b \in BOOLEAN : commitChanSenderApply(n, b)
    \/ Settled /\ Calm /\ \E n \in Nodes : MayTimeOut(n) /\ runElectionTimer(n)
    \/ Settled /\ \E m \in msgs :
          /\ LaggardVote(m)
          /\ Len(elections[m.to]) > m.eid
          /\ RequestVoteReplyHandler(m)
    \/ Settled /\ \E n \in Nodes : runAEsTimerSelect(n, TRUE)
    \/ Settled /\ \E m \in msgs : AppendEntries(m)
    \/ Settled /\ \E m \in msgs : AppendEntriesReplyHandler(m)
    \/ Settled /\ \E n \in Nodes :
          SubmitAccepts(n) /\ Len(log[n]) < MaxLog /\ Submit(n, ClientCommand(n))
    \/ Settled /\ \E w \in waiters : SubmitTimeout(w)
    \/ Settled /\ \E w \in waiters, from \in waiters \cup {ApplyWorker} :
          SubmitReceive(w, from)

SpecStaleLeader == Init /\ [][StaleLeaderNext]_vars

\* A stale-append schedule. ElectionOrder lists the nodes in the order in which
\* their election timeouts elapse. Some calls are slow: the replies to the
\* first election of a node that times out twice arrive after its second
\* timeout, the first RequestVote request of node 1 reaches node 2 once a
\* leader has been elected, and an AppendEntries request of the first leader
\* that carries entries reaches a node after that node's second timeout.
ElectionOrder == <<2, 1, 0, 2, 1>>
NextToTimeOut(n) ==
    /\ ElectionsStarted < Len(ElectionOrder)
    /\ ElectionOrder[ElectionsStarted + 1] = n
TimedOutTwice(n) == Len(elections[n]) > 1
Arrives(m) ==
    CASE m.mtype = "RequestVoteReply" /\ m.eid = 1 /\ m.to \in {1, 2}
            -> TimedOutTwice(m.to)
      [] m.mtype = "RequestVoteArgs" /\ m.eid = 1 /\ m.from = 1 /\ m.to = 2
            -> leaderHist # {}
      [] m.mtype = "AppendEntriesArgs" /\ m.from = 0 /\ m.Entries # <<>>
            -> TimedOutTwice(m.to)
      [] OTHER -> TRUE

\* Every goroutine waits for a slow call, a timer or a client
Lull == Quiet /\ \A m \in msgs : ~Arrives(m)

\* The cluster under the stale-append schedule: goroutines run as soon as they
\* can, a leader starts a round of calls when its last one has ended, election
\* timeouts elapse and clients call Submit on leaders during a lull, the
\* heartbeat and Submit timers do not fire
StaleAppendNext ==
    \/ \E g \in rvPending : SendRequestVote(g)
    \/ \E g \in aePending : SendAppendEntries(g)
    \/ NoPending /\ \E w \in waiters : SubmitTrigger(w)
    \/ NoPending /\ \E n \in Nodes : commitChanSenderRange(n)
    \/ NoPending /\ \E n \in Nodes : commitChanSenderTake(n)
    \/ NoPending /\ \E n \in Nodes, b \in BOOLEAN : commitChanSenderApply(n, b)
    \/ NoPending /\ \E n \in Nodes : runAEsTimerCheck(n)
    \/ NoPending /\ \E n \in Nodes : ~RoundUnderWay(n) /\ leaderSendAEs(n)
    \/ Lull /\ \E n \in Nodes : NextToTimeOut(n) /\ runElectionTimer(n)
    \/ Quiet /\ \E m \in msgs : Arrives(m) /\ RequestVote(m)
    \/ Quiet /\ \E m \in msgs : Arrives(m) /\ RequestVoteReplyHandler(m)
    \/ Quiet /\ \E n \in Nodes : runAEsTimerSelect(n, TRUE)
    \/ Quiet /\ \E m \in msgs : Arrives(m) /\ AppendEntries(m)
    \/ Quiet /\ \E m \in msgs : AppendEntriesReplyHandler(m)
    \/ Lull /\ \E n \in Nodes :
          SubmitAccepts(n) /\ Len(log[n]) < MaxLog /\ Submit(n, ClientCommand(n))
    \/ Quiet /\ \E w \in waiters, from \in waiters \cup {ApplyWorker} :
          SubmitReceive(w, from)

SpecStaleAppend == Init /\ [][StaleAppendNext]_vars

\* A re-election schedule. ReelectOrder lists the nodes in the order in which
\* their election timeouts elapse. The replies to the AppendEntries requests
\* that carried entries in a node's first leadership are slow: they arrive
\* after that node's second timeout.
ReelectOrder == <<0, 2, 0>>
NextToStand(n) ==
    /\ ElectionsStarted < Len(ReelectOrder)
    /\ ReelectOrder[ElectionsStarted + 1] = n
SlowReply(m) ==
    /\ m.mtype = "AppendEntriesReply"
    /\ m.nEntries > 0
    /\ m.savedCurrentTerm = elections[m.to][1].term
ReplyArrives(m) == SlowReply(m) => TimedOutTwice(m.to)

\* Every goroutine waits for a slow reply, a timer or a client
Becalmed == Quiet /\ \A m \in msgs : ~ReplyArrives(m)

\* The cluster under the re-election schedule: goroutines run as soon as they
\* can, a leader starts a round of calls when its last one has ended, election
\* timeouts elapse and clients call Submit on leaders when nothing else can
\* run, the heartbeat and Submit timers do not fire
ReelectNext ==
    \/ \E g \in rvPending : SendRequestVote(g)
    \/ \E g \in aePending : SendAppendEntries(g)
    \/ NoPending /\ \E w \in waiters : SubmitTrigger(w)
    \/ NoPending /\ \E n \in Nodes : runAEsTimerCheck(n)
    \/ NoPending /\ \E n \in Nodes : ~RoundUnderWay(n) /\ leaderSendAEs(n)
    \/ Becalmed /\ \E n \in Nodes : NextToStand(n) /\ runElectionTimer(n)
    \/ Quiet /\ \E m \in msgs : RequestVote(m)
    \/ Quiet /\ \E m \in msgs : RequestVoteReplyHandler(m)
    \/ Quiet /\ \E n \in Nodes : runAEsTimerSelect(n, TRUE)
    \/ Quiet /\ \E m \in msgs : AppendEntries(m)
    \/ Quiet /\ \E m \in msgs : ReplyArrives(m) /\ AppendEntriesReplyHandler(m)
    \/ Becalmed /\ \E n \in Nodes :
          SubmitAccepts(n) /\ Len(log[n]) < MaxLog /\ Submit(n, ClientCommand(n))

SpecReelect == Init /\ [][ReelectNext]_vars

\* A shutdown schedule. StopOrder lists the nodes in the order in which their
\* election timeouts elapse.
StopOrder == <<0, 1>>
NextBeforeStop(n) ==
    /\ ElectionsStarted < Len(StopOrder)
    /\ StopOrder[ElectionsStarted + 1] = n

\* No node has been stopped
NoneStopped == \A p \in Nodes : ~closed[p]

\* Elections, heartbeats and one Stop: spawned goroutines run before anything
\* else does, calls are answered in any order, the heartbeat timer fires, and
\* one node is stopped at any moment; there are no clients
StopNext ==
    \/ \E g \in rvPending : SendRequestVote(g)
    \/ \E g \in aePending : SendAppendEntries(g)
    \/ NoPending /\ \E n \in Nodes : NextBeforeStop(n) /\ runElectionTimer(n)
    \/ NoPending /\ \E m \in msgs : RequestVote(m)
    \/ NoPending /\ \E m \in msgs : RequestVoteReplyHandler(m)
    \/ NoPending /\ \E m \in msgs : AppendEntries(m)
    \/ NoPending /\ \E m \in msgs : AppendEntriesReplyHandler(m)
    \/ NoPending /\ \E n \in Nodes : runAEsTimerSelect(n, FALSE)
    \/ NoPending /\ \E n \in Nodes : runAEsTimerCheck(n)
    \/ NoPending /\ \E n \in Nodes : ~RoundUnderWay(n) /\ leaderSendAEs(n)
    \/ NoPending /\ NoneStopped /\ \E n \in Nodes : Stop(n)

SpecStop == Init /\ [][StopNext]_vars

\* A rollback schedule. RollbackOrder lists the nodes in the order in which
\* their election timeouts elapse: node 0 stands five times, node 1 once and
\* node 2 three times. Some calls are slow and some fail:
\*   - the replies to the first and to the fourth election of node 0 arrive
\*     after its next timeout;
\*   - the second RequestVote request of node 0 to node 2 and the first of
\*     node 2 to node 1 are delivered once a leader has been elected, and their
\*     replies arrive after the candidate's fourth (node 0) or third (node 2)
\*     timeout;
\*   - an AppendEntries request of node 1 that carries entries reaches a node
\*     after that node's fourth (node 0) or third (node 2) timeout, when the
\*     node's term is the request's again;
\*   - the calls of node 2's second election to node 1, of its third election
\*     and of node 0's fifth election fail, and so do the AppendEntries calls
\*     of node 0 to node 2 from the commit of node 0's third entry until node
\*     2's third timeout.
RollbackOrder == <<0, 0, 2, 1, 0, 2, 0, 2, 0>>
NextToRollBack(n) ==
    /\ ElectionsStarted < Len(RollbackOrder)
    /\ RollbackOrder[ElectionsStarted + 1] = n
TimeOuts(n) == Len(elections[n])
Reaches(m) ==
    CASE m.mtype = "RequestVoteReply" /\ m.to = 0 /\ m.eid = 1
            -> TimeOuts(0) >= 3
      [] m.mtype = "RequestVoteReply" /\ m.to = 0 /\ m.eid = 2 /\ m.from = 2
            -> TimeOuts(0) >= 4
      [] m.mtype = "RequestVoteReply" /\ m.to = 0 /\ m.eid = 4
            -> TimeOuts(0) >= 5
      [] m.mtype = "RequestVoteReply" /\ m.to = 2 /\ m.eid = 1 /\ m.from = 1
            -> TimeOuts(2) >= 3
      [] m.mtype = "RequestVoteArgs" /\ m.from = 0 /\ m.eid = 2 /\ m.to = 2
            -> leaderHist # {}
      [] m.mtype = "RequestVoteArgs" /\ m.from = 2 /\ m.eid = 1 /\ m.to = 1
            -> leaderHist # {}
      [] m.mtype = "AppendEntriesArgs" /\ m.from = 1 /\ m.Entries # <<>>
            -> /\ TimeOuts(m.to) >= (IF m.to = 0 THEN 4 ELSE 3)
               /\ currentTerm[m.to] = m.Term
      [] OTHER -> TRUE
VoteCallLost(g) ==
    \/ g.from = 2 /\ g.eid = 2 /\ g.to = 1
    \/ g.from = 2 /\ g.eid = 3
    \/ g.from = 0 /\ g.eid = 5
AppendCallLost(g) ==
    g.from = 0 /\ g.to = 2 /\ commitIndex[0] >= RollbackLog - 1 /\ TimeOuts(2) < 3

\* The number of commands the clients of node n submit
RollbackCommands(n) == IF n = 1 THEN 1 ELSE RollbackLog

\* Every goroutine waits for a slow call, a timer or a client
Stalled == Quiet /\ \A m \in msgs : ~Reaches(m)

\* The cluster under the rollback schedule: goroutines run as soon as they
\* can, a leader starts a round of calls when its last one has ended, election
\* timeouts elapse and clients call Submit on leaders when nothing else can
\* run, the heartbeat and Submit timers do not fire
RollbackNext ==
    \/ \E g \in rvPending : ~VoteCallLost(g) /\ SendRequestVote(g)
    \/ \E g \in rvPending : VoteCallLost(g) /\ CallFails(g)
    \/ \E g \in aePending : ~AppendCallLost(g) /\ SendAppendEntries(g)
    \/ \E g \in aePending : AppendCallLost(g) /\ CallFails(g)
    \/ NoPending /\ \E w \in waiters : SubmitTrigger(w)
    \/ NoPending /\ \E n \in Nodes : commitChanSenderRange(n)
    \/ NoPending /\ \E n \in Nodes : commitChanSenderTake(n)
    \/ NoPending /\ \E n \in Nodes, b \in BOOLEAN : commitChanSenderApply(n, b)
    \/ NoPending /\ \E n \in Nodes : runAEsTimerCheck(n)
    \/ NoPending /\ \E n \in Nodes : ~RoundUnderWay(n) /\ leaderSendAEs(n)
    \/ Stalled /\ \E n \in Nodes : NextToRollBack(n) /\ runElectionTimer(n)
    \/ Quiet /\ \E m \in msgs : Reaches(m) /\ RequestVote(m)
    \/ Quiet /\ \E m \in msgs : Reaches(m) /\ RequestVoteReplyHandler(m)
    \/ Quiet /\ \E n \in Nodes : runAEsTimerSelect(n, TRUE)
    \/ Quiet /\ \E m \in msgs : Reaches(m) /\ AppendEntries(m)
    \/ Quiet /\ \E m \in msgs : AppendEntriesReplyHandler(m)
    \/ Stalled /\ \E n \in Nodes :
          /\ SubmitAccepts(n)
          /\ Len(log[n]) < RollbackCommands(n)
          /\ Submit(n, ClientCommand(n))
    \/ Quiet /\ \E w \in waiters, from \in waiters \cup {ApplyWorker} :
          SubmitReceive(w, from)

SpecRollback == Init /\ [][RollbackNext]_vars

\* A two-leaders schedule. Nodes 0 and 1 become Leader in the same term as
\* under the split-brain schedule. After that the AppendEntries calls of node
\* 0 to node 1 fail, and the AppendEntries requests of node 1 are slow: they
\* arrive once node 2 holds an entry.
Severed(g) == g.from = 0 /\ g.to = 1
SlowAppend(m) == m.mtype = "AppendEntriesArgs" /\ m.from = 1
AppendArrives(m) == SlowAppend(m) => log[2] # <<>>

\* Every goroutine waits for a slow request, a timer or a client
Hushed == Quiet /\ \A m \in msgs : SlowAppend(m) /\ ~AppendArrives(m)

\* The cluster under the two-leaders schedule: goroutines run as soon as they
\* can, a leader starts a round of calls when its last one has ended, clients
\* call Submit on leaders when nothing else can run, the heartbeat and Submit
\* timers do not fire
TwoLeadersNext ==
    \/ \E g \in rvPending : ~Partitioned(g) /\ SendRequestVote(g)
    \/ \E g \in rvPending : Partitioned(g) /\ CallFails(g)
    \/ \E g \in aePending : ~Severed(g) /\ SendAppendEntries(g)
    \/ \E g \in aePending : Severed(g) /\ CallFails(g)
    \/ NoPending /\ \E w \in waiters : SubmitTrigger(w)
    \/ NoPending /\ \E n \in Nodes : commitChanSenderRange(n)
    \/ NoPending /\ \E n \in Nodes : commitChanSenderTake(n)
    \/ NoPending /\ \E n \in Nodes, b \in BOOLEAN : commitChanSenderApply(n, b)
    \/ NoPending /\ \E n \in Nodes : runAEsTimerCheck(n)
    \/ NoPending /\ \E n \in Nodes : ~RoundUnderWay(n) /\ leaderSendAEs(n)
    \/ Quiet /\ \E n \in Nodes : MayTimeOut(n) /\ runElectionTimer(n)
    \/ Quiet /\ \E m \in msgs : RequestVote(m)
    \/ Quiet /\ \E m \in msgs : VoteArrives(m) /\ RequestVoteReplyHandler(m)
    \/ Quiet /\ \E n \in Nodes : runAEsTimerSelect(n, TRUE)
    \/ Quiet /\ \E m \in msgs : AppendArrives(m) /\ AppendEntries(m)
    \/ Quiet /\ \E m \in msgs : AppendEntriesReplyHandler(m)
    \/ Hushed /\ \E n \in Nodes :
          SubmitAccepts(n) /\ Len(log[n]) < MaxLog /\ Submit(n, ClientCommand(n))
    \/ Quiet /\ \E w \in waiters, from \in waiters \cup {ApplyWorker} :
          SubmitReceive(w, from)

SpecTwoLeaders == Init /\ [][TwoLeadersNext]_vars

\* No goroutine has panicked and no RPC goroutine is waiting to run
Running == ~panicked /\ NoPending

\* A stale-reply schedule. Node 2 stands first and the grants it is sent are
\* slow; node 0 is elected, accepts commands and replicates them to node 1
\* only, and node 1's acknowledgement of the last of them is slow; node 2
\* stands again, is elected on its old grants and replicates a shorter log;
\* node 0 is elected once more and then gets the old acknowledgement.
\*   - the elections start in the order StaleReplyOrder;
\*   - the replies to node 2's first election arrive after its second timeout;
\*   - the AppendEntries calls of node 0 to node 2 fail until node 0's second
\*     timeout;
\*   - a reply to node 0 that acknowledges StaleLog entries arrives when node 0
\*     has timed out twice and is Leader.
StaleReplyOrder == <<2, 0, 2, 0>>
NextToStandAgain(n) ==
    /\ ElectionsStarted < Len(StaleReplyOrder)
    /\ StaleReplyOrder[ElectionsStarted + 1] = n
OldReplyArrives(m) ==
    CASE m.mtype = "RequestVoteReply" /\ m.to = 2 /\ m.eid = 1
            -> Len(elections[2]) >= 2
      [] m.mtype = "AppendEntriesReply" /\ m.to = 0
                                        /\ m.ni + m.nEntries >= StaleLog
            -> Len(elections[0]) >= 2 /\ state[0] = Leader
      [] OTHER -> TRUE
AppendCallFails(g) == g.from = 0 /\ g.to = 2 /\ Len(elections[0]) < 2

\* The number of commands the clients of node n submit
StaleReplyCommands(n) == IF n = 0 THEN StaleLog ELSE StaleLog - 1

\* Every goroutine waits for a slow call, a timer or a client
AllWaiting == ~panicked /\ Quiet /\ \A m \in msgs : ~OldReplyArrives(m)

\* The cluster under the stale-reply schedule: goroutines run as soon as they
\* can, a leader starts a round of calls when its last one has ended, election
\* timeouts elapse and clients call Submit on leaders when nothing else can
\* run, the heartbeat and Submit timers do not fire, and nothing runs after a
\* panic
StaleReplyNext ==
    \/ ~panicked /\ \E g \in rvPending : SendRequestVote(g)
    \/ ~panicked /\ \E g \in aePending : ~AppendCallFails(g) /\ SendAppendEntries(g)
    \/ ~panicked /\ \E g \in aePending : AppendCallFails(g) /\ CallFails(g)
    \/ Running /\ \E w \in waiters : SubmitTrigger(w)
    \/ Running /\ \E n \in Nodes : commitChanSenderRange(n)
    \/ Running /\ \E n \in Nodes : commitChanSenderTake(n)
    \/ Running /\ \E n \in Nodes, b \in BOOLEAN : commitChanSenderApply(n, b)
    \/ Running /\ \E n \in Nodes : runAEsTimerCheck(n)
    \/ Running /\ \E n \in Nodes : ~RoundUnderWay(n) /\ leaderSendAEs(n)
    \/ AllWaiting /\ \E n \in Nodes : NextToStandAgain(n) /\ runElectionTimer(n)
    \/ ~panicked /\ Quiet /\ \E m \in msgs : RequestVote(m)
    \/ ~panicked /\ Quiet /\ \E m \in msgs :
          OldReplyArrives(m) /\ RequestVoteReplyHandler(m)
    \/ ~panicked /\ Quiet /\ \E n \in Nodes : runAEsTimerSelect(n, TRUE)
    \/ ~panicked /\ Quiet /\ \E m \in msgs : AppendEntries(m)
    \/ ~panicked /\ Quiet /\ \E m \in msgs :
          OldReplyArrives(m) /\ AppendEntriesReplyHandler(m)
    \/ AllWaiting /\ \E n \in Nodes :
          /\ SubmitAccepts(n)
          /\ Len(log[n]) < StaleReplyCommands(n)
          /\ Submit(n, ClientCommand(n))
    \/ ~panicked /\ Quiet /\ \E w \in waiters, from \in waiters \cup {ApplyWorker} :
          SubmitReceive(w, from)

SpecStaleReply == Init /\ [][StaleReplyNext]_vars

\* Every goroutine waits for a timer or a client, or is the apply worker about
\* to call ApplyCommand, and no call is under way
Idle ==
    /\ Running
    /\ msgs = {}
    /\ \A n \in Nodes : LocalStepReady(n) => ApplyReady(n)

\* The node whose election timeout elapses under the client schedules
SoleElector == {0}

\* The election timeout of node n may still elapse under the client schedules
MayTimeOutOnce(n) == n \in Electors /\ Len(elections[n]) < SubmitElections

\* A client schedule over a sound network: every call is made and answered at
\* once, timers fire and clients call only while nothing else can run, clients
\* call Submit on any node, and one node may be stopped
SubmitNext ==
    \/ ~panicked /\ \E g \in rvPending : SendRequestVote(g)
    \/ ~panicked /\ \E g \in aePending : SendAppendEntries(g)
    \/ Running /\ \E m \in msgs : RequestVote(m)
    \/ Running /\ \E m \in msgs : RequestVoteReplyHandler(m)
    \/ Running /\ \E m \in msgs : AppendEntries(m)
    \/ Running /\ \E m \in msgs : AppendEntriesReplyHandler(m)
    \/ Running /\ \E w \in waiters : SubmitTrigger(w)
    \/ Running /\ \E n \in Nodes : commitChanSenderRange(n)
    \/ Running /\ \E n \in Nodes : commitChanSenderTake(n)
    \/ Running /\ \E n \in Nodes : runAEsTimerCheck(n)
    \/ Running /\ \E n \in Nodes : ~RoundUnderWay(n) /\ leaderSendAEs(n)
    \/ Idle /\ \E n \in Nodes, b \in BOOLEAN : commitChanSenderApply(n, b)
    \/ Idle /\ \E n \in SoleElector : MayTimeOutOnce(n) /\ runElectionTimer(n)
    \/ Idle /\ \E n \in Nodes, t \in BOOLEAN : runAEsTimerSelect(n, t)
    \/ Idle /\ \E n \in Nodes : CompleteSend(n)
    \/ Idle /\ \E n \in Nodes :
          (SubmitAccepts(n) => Len(log[n]) < MaxLog) /\ Submit(n, ClientCommand(n))
    \/ Idle /\ \E w \in waiters : SubmitTimeout(w)
    \/ Idle /\ \E w \in waiters, from \in waiters \cup {ApplyWorker} :
          SubmitReceive(w, from)
    \/ Idle /\ (\A p \in Nodes : ~closed[p]) /\ \E n \in Nodes : Stop(n)

SpecSubmit == Init /\ [][SubmitNext]_vars

\* A Submit call on node n for log index i has not returned
Waiting(n, i) == \E w \in waiters : w.node = n /\ w.index = i

\* The Submit call on node n for log index i takes the ticker case
TickerFires(n, i) ==
    \E w \in waiters : w.node = n /\ w.index = i /\ SubmitTimeout(w)

\* A step of the apply worker of node n
commitChanSender(n) ==
    \/ commitChanSenderRange(n)
    \/ commitChanSenderTake(n)
    \/ \E b \in BOOLEAN : commitChanSenderApply(n, b)

\* A step of the replication loop of node n
runAEsTimer(n) ==
    \/ \E t \in BOOLEAN : runAEsTimerSelect(n, t)
    \/ runAEsTimerCheck(n)
    \/ leaderSendAEs(n)

\* A step in which message m is handled by the node it is addressed to
Handles(m) ==
    \/ RequestVote(m)
    \/ RequestVoteReplyHandler(m)
    \/ AppendEntries(m)
    \/ AppendEntriesReplyHandler(m)

\* A single leader over a sound network, with the heartbeat and Submit timers:
\* one node times out once, every call is made and answered at once, timers
\* fire and clients call only while nothing else can run, clients call Submit
\* on the leader
FairNext ==
    \/ ~panicked /\ \E g \in rvPending : SendRequestVote(g)
    \/ ~panicked /\ \E g \in aePending : SendAppendEntries(g)
    \/ Running /\ \E m \in msgs : RequestVote(m)
    \/ Running /\ \E m \in msgs : RequestVoteReplyHandler(m)
    \/ Running /\ \E m \in msgs : AppendEntries(m)
    \/ Running /\ \E m \in msgs : AppendEntriesReplyHandler(m)
    \/ Running /\ \E w \in waiters : SubmitTrigger(w)
    \/ Running /\ \E n \in Nodes : commitChanSenderRange(n)
    \/ Running /\ \E n \in Nodes : commitChanSenderTake(n)
    \/ Running /\ \E n \in Nodes : runAEsTimerCheck(n)
    \/ Running /\ \E n \in Nodes : ~RoundUnderWay(n) /\ leaderSendAEs(n)
    \/ Running /\ \E n \in Nodes : CompleteSend(n)
    \/ Idle /\ \E n \in Nodes, b \in BOOLEAN : commitChanSenderApply(n, b)
    \/ Idle /\ \E n \in SoleElector : MayTimeOutOnce(n) /\ runElectionTimer(n)
    \/ Idle /\ \E n \in Nodes, t \in BOOLEAN : runAEsTimerSelect(n, t)
    \/ Idle /\ \E n \in Nodes :
          SubmitAccepts(n) /\ Len(log[n]) < SubmitLogs /\ Submit(n, ClientCommand(n))
    \/ Idle /\ \E w \in waiters : SubmitTimeout(w)
    \/ Idle /\ \E w \in waiters, from \in waiters \cup {ApplyWorker} :
          SubmitReceive(w, from)

\* Every goroutine that can take a step takes one in the end, and the ticker
\* case of a Submit call that comes to its select again and again is taken
Fairness ==
    /\ WF_vars(\E g \in rvPending : SendRequestVote(g))
    /\ WF_vars(\E g \in aePending : SendAppendEntries(g))
    /\ WF_vars(\E m \in msgs : Handles(m))
    /\ WF_vars(\E w \in waiters : SubmitTrigger(w))
    /\ WF_vars(\E w \in waiters, from \in waiters \cup {ApplyWorker} :
                  SubmitReceive(w, from))
    /\ \A n \in Nodes : WF_vars(commitChanSender(n))
    /\ \A n \in Nodes : WF_vars(runAEsTimer(n))
    /\ \A n \in Nodes : WF_vars(CompleteSend(n))
    /\ \A n \in Nodes, i \in 0 .. (SubmitLogs - 1) : SF_vars(TickerFires(n, i))

SpecSubmitFair == Init /\ [][FairNext]_vars /\ Fairness

\* The schedule of SpecSubmitFair with one Stop: one node is stopped at a
\* moment at which nothing else can run, and the clients submit MaxLog commands
ShutdownNext ==
    \/ ~panicked /\ \E g \in rvPending : SendRequestVote(g)
    \/ ~panicked /\ \E g \in aePending : SendAppendEntries(g)
    \/ Running /\ \E m \in msgs : RequestVote(m)
    \/ Running /\ \E m \in msgs : RequestVoteReplyHandler(m)
    \/ Running /\ \E m \in msgs : AppendEntries(m)
    \/ Running /\ \E m \in msgs : AppendEntriesReplyHandler(m)
    \/ Running /\ \E w \in waiters : SubmitTrigger(w)
    \/ Running /\ \E n \in Nodes : commitChanSenderRange(n)
    \/ Running /\ \E n \in Nodes : commitChanSenderTake(n)
    \/ Running /\ \E n \in Nodes : runAEsTimerCheck(n)
    \/ Running /\ \E n \in Nodes : ~RoundUnderWay(n) /\ leaderSendAEs(n)
    \/ Running /\ \E n \in Nodes : CompleteSend(n)
    \/ Idle /\ \E n \in Nodes, b \in BOOLEAN : commitChanSenderApply(n, b)
    \/ Idle /\ \E n \in SoleElector : MayTimeOutOnce(n) /\ runElectionTimer(n)
    \/ Idle /\ \E n \in Nodes, t \in BOOLEAN : runAEsTimerSelect(n, t)
    \/ Idle /\ \E n \in Nodes :
          SubmitAccepts(n) /\ Len(log[n]) < MaxLog /\ Submit(n, ClientCommand(n))
    \/ Idle /\ \E w \in waiters : SubmitTimeout(w)
    \/ Idle /\ \E w \in waiters, from \in waiters \cup {ApplyWorker} :
          SubmitReceive(w, from)
    \/ Idle /\ NoneStopped /\ \E n \in Nodes : Stop(n)

SpecShutdown == Init /\ [][ShutdownNext]_vars /\ Fairness

\* The node that the leader's calls do not reach once it has been elected
Unreachable == {2}

\* The reachable followers of the node that w called have acknowledged w's entry
Acked(w) ==
    \A p \in Nodes \ (Unreachable \cup {w.node}) :
        matchIndex[w.node][p] >= w.index

\* A leader with a strict majority: one node times out once and is elected
\* by all; after that its calls to the node in Unreachable fail while those to
\* the other follower are made and answered at once. Clients call Submit on
\* the leader, the heartbeat timer fires while nothing else can run, and the
\* ticker case of a Submit call is taken only after the reachable follower has
\* acknowledged the entry and nothing else can run.
MajorityNext ==
    \/ ~panicked /\ \E g \in rvPending : SendRequestVote(g)
    \/ ~panicked /\ \E g \in aePending :
          g.to \notin Unreachable /\ SendAppendEntries(g)
    \/ ~panicked /\ \E g \in aePending : g.to \in Unreachable /\ CallFails(g)
    \/ Running /\ \E m \in msgs : RequestVote(m)
    \/ Running /\ \E m \in msgs : RequestVoteReplyHandler(m)
    \/ Running /\ \E m \in msgs : AppendEntries(m)
    \/ Running /\ \E m \in msgs : AppendEntriesReplyHandler(m)
    \/ Running /\ \E w \in waiters : SubmitTrigger(w)
    \/ Running /\ \E n \in Nodes : runAEsTimerCheck(n)
    \/ Running /\ \E n \in Nodes : ~RoundUnderWay(n) /\ leaderSendAEs(n)
    \/ Idle /\ \E n \in SoleElector : MayTimeOutOnce(n) /\ runElectionTimer(n)
    \/ Idle /\ \E n \in Nodes, t \in BOOLEAN : runAEsTimerSelect(n, t)
    \/ Idle /\ \E n \in Nodes :
          SubmitAccepts(n) /\ Len(log[n]) < SubmitLogs /\ Submit(n, ClientCommand(n))
    \/ Idle /\ \E w \in waiters : Acked(w) /\ SubmitTimeout(w)

SpecMajority == Init /\ [][MajorityNext]_vars

\* Elections with a strict majority: the calls to the node in Unreachable fail
\* from the start, the other two nodes reach each other, and their election
\* timeouts elapse in any order
TwoOfThreeNext ==
    \/ \E g \in rvPending : g.to \notin Unreachable /\ SendRequestVote(g)
    \/ \E g \in rvPending : g.to \in Unreachable /\ CallFails(g)
    \/ NoPending /\ \E n \in Nodes : MayTimeOut(n) /\ runElectionTimer(n)
    \/ NoPending /\ \E m \in msgs : RequestVote(m)
    \/ NoPending /\ \E m \in msgs : RequestVoteReplyHandler(m)

\* Every call is made and answered in the end, and a timeout that can elapse
\* does
TwoOfThreeFairness ==
    /\ WF_vars(\E g \in rvPending : SendRequestVote(g) \/ CallFails(g))
    /\ WF_vars(\E m \in msgs : Handles(m))
    /\ \A n \in Nodes : WF_vars(NoPending /\ MayTimeOut(n) /\ runElectionTimer(n))

SpecTwoOfThree == Init /\ [][TwoOfThreeNext]_vars /\ TwoOfThreeFairness

\* A calculator used directly: commands are applied to it one after another
CalculatorNext == \E entry \in Entries : CalculatorCall(entry)

SpecCalculator == Init /\ [][CalculatorNext]_vars

\* The node whose election timeout elapses in the cluster of the client
ClusterElector == {1}

\* A goroutine of node n blocked on a channel send can complete it
SendCompletes(n) ==
    \/ held[n].on = "newCommitReadyChan" /\ newCommitReadyChan[n] < CommitReadyCap
    \/ held[n].on = "triggerAEChan" /\ triggerAEChan[n] < TriggerAECap

\* Nothing can run but the timers
Halted ==
    /\ Idle
    /\ \A n \in Nodes :
          /\ ~ApplyReady(n)
          /\ resultOut[n] = NoResult
          /\ ~(aeLoops[n].waiting > 0 /\ triggerAEChan[n] > 0)
          /\ ~SendCompletes(n)

\* Cluster.Submit is called with command c, once a leader exists and the
\* previous call has returned
ClusterSubmit(c) ==
    /\ client.cmd = NoCommand
    /\ Len(client.results) < MaxScript
    /\ \E n \in Nodes : state[n] = Leader
    /\ client' = [client EXCEPT !.cmd = c]
    /\ ret' = NoRet
    /\ UNCHANGED <<nodeVars, elections, rvPending, aePending, msgs, aeLoops,
                   held, closed, triggerAEChan, newCommitReadyChan, worker,
                   applyQ, resultOut, applied, waiters, leaderHist, commitHist,
                   panicked, calculator, calls>>

\* Cluster.Submit calls Submit on the server it has come to
ClusterSubmitCall ==
    /\ client.cmd # NoCommand
    /\ waiters = {}
    /\ Submit(client.server, client.cmd)

\* A fault-free cluster with one client: one node times out once and is
\* elected, every call is made and answered, goroutines run in any order, the
\* client calls Cluster.Submit with one calculator command after another, the
\* heartbeat timer fires when no goroutine can run and no trigger is waiting,
\* and the ticker of a Submit call fires only when nothing but timers can run
ClusterNext ==
    \/ ~panicked /\ \E g \in rvPending : SendRequestVote(g)
    \/ ~panicked /\ \E g \in aePending : SendAppendEntries(g)
    \/ Running /\ \E m \in msgs : RequestVote(m)
    \/ Running /\ \E m \in msgs : RequestVoteReplyHandler(m)
    \/ Running /\ \E m \in msgs : AppendEntries(m)
    \/ Running /\ \E m \in msgs : AppendEntriesReplyHandler(m)
    \/ Running /\ \E w \in waiters : SubmitTrigger(w)
    \/ Running /\ \E n \in Nodes : commitChanSenderRange(n)
    \/ Running /\ \E n \in Nodes : commitChanSenderTake(n)
    \/ Running /\ \E n \in Nodes, b \in BOOLEAN : commitChanSenderApply(n, b)
    \/ Running /\ \E n \in Nodes : runAEsTimerCheck(n)
    \/ Running /\ \E n \in Nodes : ~RoundUnderWay(n) /\ leaderSendAEs(n)
    \/ Running /\ \E n \in Nodes : CompleteSend(n)
    \/ Running /\ \E n \in Nodes : runAEsTimerSelect(n, TRUE)
    \/ Idle /\ \E n \in Nodes :
          triggerAEChan[n] = 0 /\ runAEsTimerSelect(n, FALSE)
    \/ Idle /\ \E n \in ClusterElector :
          Len(elections[n]) < SubmitElections /\ runElectionTimer(n)
    \/ Running /\ \E c \in CalculatorCommands : ClusterSubmit(c)
    \/ Running /\ ClusterSubmitCall
    \/ Running /\ \E w \in waiters, from \in waiters \cup {ApplyWorker} :
          SubmitReceive(w, from)
    \/ Halted /\ \E w \in waiters : SubmitTimeout(w)

SpecCluster == Init /\ [][ClusterNext]_vars

-----------------------------------------------------------------------------
\* Claims

\* C1 (Election Safety): no two distinct nodes ever become Leader holding the
\* same currentTerm, over the whole execution.
ElectionSafety ==
    \A p, q \in leaderHist : p[2] = q[2] => p[1] = q[1]

\* C2 (State-Machine Agreement): the sequences of commands any two nodes have
\* passed to ApplyCommand are prefixes of one another.
StateMachineAgreement ==
    \A a, b \in Nodes :
        \A i \in 1 .. Len(applied[a]) :
            i <= Len(applied[b]) => applied[a][i] = applied[b][i]

\* C3: once the commitIndex of a node covers log index i, no step removes or
\* replaces the entry that node stores at index i.
CommittedNeverOverwritten ==
    [][\A n \in Nodes :
          \A i \in 0 .. commitIndex[n] :
              i < Len(log[n])
              => /\ i < Len(log'[n])
                 /\ EntryAt(log'[n], i) = EntryAt(log[n], i)]_vars

\* C4 (Leader Completeness): a node that becomes Leader in term t holds, at the
\* same index and with the same term and command, every entry that a node's
\* commitIndex came to cover in a term earlier than t.
LeaderCompleteness ==
    [][\A n \in Nodes :
          (state[n] # Leader /\ state'[n] = Leader)
          => \A h \in commitHist :
                h[3] < currentTerm'[n]
                => /\ h[1] < Len(log'[n])
                   /\ EntryAt(log'[n], h[1]) = h[2]]_vars

\* C5 (Log Matching): if the logs of two nodes hold entries of the same term at
\* an index, they hold the same command there and are identical below it.
LogMatching ==
    \A a, b \in Nodes :
        \A i \in 0 .. (Len(log[a]) - 1) :
            (i < Len(log[b]) /\ EntryAt(log[a], i).Term = EntryAt(log[b], i).Term)
            => SubSeq(log[a], 1, i + 1) = SubSeq(log[b], 1, i + 1)

\* C6: a Submit call that returns ok = true returns the result ApplyCommand
\* produced for its own command.
SubmitReturnsOwnResult ==
    ret.ok => ret.result = ApplyCommand(SubSeq(applied[ret.node], 1, ret.index),
                                        ret.cmd)

\* C7: every Submit call accepted by a Leader eventually returns, with its own
\* result or, once its ticker has fired, with (nil, false).
SubmitEventuallyReturns ==
    \A n \in Nodes, i \in 0 .. (SubmitLogs - 1) :
        Waiting(n, i) ~> ~Waiting(n, i)

\* C8: Submit on a node that is Follower, Candidate or Dead returns (nil, false)
\* without waiting, leaves the node's log, currentTerm, votedFor, commitIndex,
\* lastApplied and role unchanged, and sends nothing on triggerAEChan.
SubmitRejectedOffLeader ==
    [][\A n \in Nodes, c \in Commands :
          (Submit(n, c) /\ state[n] # Leader)
          => /\ ret' = [node |-> n, ok |-> FALSE, result |-> Nil, cmd |-> c,
                        index |-> None, waited |-> FALSE]
             /\ UNCHANGED <<log, currentTerm, votedFor, commitIndex,
                            lastApplied, state, triggerAEChan, waiters>>]_vars

\* A Submit call on a stopped node has returned
SubmitRejectedOnDead ==
    /\ ret.node # None
    /\ ~ret.ok
    /\ ~ret.waited
    /\ state[ret.node] = Dead

\* C9: currentTerm of a node never decreases across any step.
TermNeverDecreases ==
    [][\A n \in Nodes : currentTerm'[n] >= currentTerm[n]]_vars

\* C10: a non-Dead node that handles a request or a reply carrying a term
\* greater than its currentTerm is Follower at that term when the handler
\* ends, with votedFor none or the candidate it then granted its vote to.
HigherTermStepsDown ==
    [][\A m \in msgs :
          (Handles(m) /\ state[m.to] # Dead /\ m.Term > currentTerm[m.to])
          => /\ state'[m.to] = Follower
             /\ currentTerm'[m.to] = m.Term
             /\ \/ votedFor'[m.to] = None
                \/ m.mtype = "RequestVoteArgs" /\ votedFor'[m.to] = m.from]_vars

\* C12: on each node the log indices of the entries passed to ApplyCommand are
\* 0, 1, 2, ... in this order, with no gap and no repetition.
AppliesInIndexOrder ==
    [][\A n \in Nodes :
          applied'[n] # applied[n]
          => /\ applyQ[n] # <<>>
             /\ Head(applyQ[n]).index = Len(applied[n])
             /\ Len(applied'[n]) = Len(applied[n]) + 1]_vars

\* A node has applied the entries at indices 0 and 1
AppliedTwice ==
    \E n \in Nodes : Len(applied[n]) = 2 /\ lastApplied[n] = 1 /\ applyQ[n] = <<>>

\* C19: a RequestVote reply of the election a node started in term t, handled
\* when the node is no longer Candidate or its currentTerm is no longer t,
\* changes neither the node's role nor its term, vote or leader bookkeeping.
StaleVoteReplyDiscarded ==
    [][\A m \in msgs :
          ( /\ m.mtype = "RequestVoteReply"
            /\ m \notin msgs'
            /\ \/ state[m.to] # Candidate
               \/ currentTerm[m.to] # elections[m.to][m.eid].term )
          => /\ state'[m.to] = state[m.to]
             /\ currentTerm'[m.to] = currentTerm[m.to]
             /\ votedFor'[m.to] = votedFor[m.to]
             /\ nextIndex'[m.to] = nextIndex[m.to]
             /\ matchIndex'[m.to] = matchIndex[m.to]]_vars

\* C20: an AppendEntries reply handled when the node is not Leader, or when its
\* currentTerm differs from the term saved when the request was sent, changes
\* none of the node's nextIndex, matchIndex and commitIndex.
StaleAppendReplyIgnored ==
    [][\A m \in msgs :
          ( /\ m.mtype = "AppendEntriesReply"
            /\ m \notin msgs'
            /\ ~(state[m.to] = Leader /\ currentTerm[m.to] = m.savedCurrentTerm) )
          => /\ nextIndex'[m.to] = nextIndex[m.to]
             /\ matchIndex'[m.to] = matchIndex[m.to]
             /\ commitIndex'[m.to] = commitIndex[m.to]]_vars

\* C15: every change of a node's role is Follower->Candidate, Candidate->Leader,
\* Candidate->Follower, Leader->Follower or a change to Dead; a Dead node keeps
\* its role whatever it handles.
RoleChangesAllowed ==
    [][\A n \in Nodes :
          state'[n] # state[n]
          => \/ state'[n] = Dead
             \/ <<state[n], state'[n]>> \in { <<Follower, Candidate>>,
                                             <<Candidate, Leader>>,
                                             <<Candidate, Follower>>,
                                             <<Leader, Follower>> }]_vars

\* C16: once a node has been stopped, no request and no reply it handles
\* changes its term, vote, log, commit index or leader tables, starts an
\* election timer or a replication loop, or sends on the commit-ready channel.
StoppedNodeUntouched ==
    [][\A m \in msgs :
          (m \notin msgs' /\ closed[m.to])
          => /\ currentTerm'[m.to] = currentTerm[m.to]
             /\ votedFor'[m.to] = votedFor[m.to]
             /\ log'[m.to] = log[m.to]
             /\ commitIndex'[m.to] = commitIndex[m.to]
             /\ nextIndex'[m.to] = nextIndex[m.to]
             /\ matchIndex'[m.to] = matchIndex[m.to]
             /\ aeLoops'[m.to] = aeLoops[m.to]
             /\ (state'[m.to] \in {Follower, Candidate}) =
                   (state[m.to] \in {Follower, Candidate})
             /\ newCommitReadyChan'[m.to] = newCommitReadyChan[m.to]
             /\ ~panicked']_vars

\* C13: while a node stays Leader with a strict majority of the cluster
\* connected, no Submit call that the leader accepted returns ok = false.
MajoritySubmitReturnsOk ==
    (ret.node # None /\ ret.waited /\ state[ret.node] = Leader) => ret.ok

FailedCommandKeepsCalculator ==
    [][calls' # calls
       => LET call == calls'[Len(calls')]
              id == call.entry.InstanceId
              stack == calculator.Calculator[id]
          IN  /\ ~call.result.Result => calculator' = calculator
              /\ ( /\ call.entry.Method = "div"
                   /\ HasInstance(calculator, id)
                   /\ Len(stack) >= 2
                   /\ stack[Len(stack) - 1] = 0 )
                 => call.result = Result(FALSE, 0)]_vars

\* div has just failed on the stack [0, 10], which is [0, 10] after it
DivByZeroRestored ==
    /\ calls # <<>>
    /\ calls[Len(calls)] = [entry |-> Entry("div", 1, 0), result |-> Result(FALSE, 0)]
    /\ HasInstance(calculator, 1)
    /\ calculator.Calculator[1] = <<0, 10>>

\* C17: in a fault-free cluster every command submitted through Cluster.Submit,
\* one after another, returns ok = true with the result that the same commands
\* applied in the same order to a new calculator give.
ClusterMatchesCalculator ==
    \A k \in 1 .. Len(client.results) :
        /\ client.results[k].ok
        /\ client.results[k].res =
              ApplyCommand([j \in 1 .. (k - 1) |-> client.results[j].cmd],
                           client.results[k].cmd)

\* C11: the commitIndex of a node never decreases in any step, whether the
\* node advances it as leader after an AppendEntries reply or sets it as
\* follower from the LeaderCommit of an AppendEntries request
CommitIndexNeverDecreases ==
    [][\A n \in Nodes : commitIndex'[n] >= commitIndex[n]]_vars

\* The nodes whose logs hold, at every index up to i, the entries of l
StoresPrefix(l, i) ==
    { p \in Nodes : \A j \in 0 .. i :
                        /\ j < Len(l)
                        /\ j < Len(log[p])
                        /\ EntryAt(log[p], j) = EntryAt(l, j) }

\* C21: when a Leader advances its commitIndex to i, a strict majority of the
\* nodes (the leader among them) store, at every index up to i, the same
\* entries as the leader's log.
CommitOnStoredMajority ==
    [][\A n \in Nodes :
          (state[n] = Leader /\ state'[n] = Leader
           /\ commitIndex'[n] > commitIndex[n])
          => /\ n \in StoresPrefix(log[n], commitIndex'[n])
             /\ Cardinality(StoresPrefix(log[n], commitIndex'[n])) * 2 > N]_vars

\* C22: after a leader has handled a successful AppendEntries reply, its
\* commitIndex is the largest index above the old one whose entry has the
\* current term and is matched on a strict majority of the N nodes (the leader
\* counted), and is unchanged if there is no such index.
CommitAdvancesOnMajority ==
    [][\A m \in msgs :
          ( /\ AppendEntriesReplyHandler(m)
            /\ m.Term <= currentTerm[m.to]
            /\ ReplyAccepted(m.to, m)
            /\ m.Success )
          => LET n == m.to
                 ok == { i \in (commitIndex[n] + 1) .. (Len(log[n]) - 1) :
                           /\ EntryAt(log[n], i).Term = currentTerm[n]
                           /\ (1 + Cardinality({ p \in Nodes \ {n} :
                                      matchIndex'[n][p] >= i })) * 2 > N }
             IN  IF ok = {} THEN commitIndex'[n] = commitIndex[n]
                 ELSE /\ commitIndex'[n] \in ok
                      /\ \A j \in ok : j <= commitIndex'[n]]_vars

\* C23: a Candidate becomes Leader as soon as the votes granted to it in its
\* current term, its own included, are a strict majority of the N nodes
\* (votes * 2 > N): in a 3-node cluster its own vote and one grant suffice.
LeaderOnMajorityOfVotes ==
    [][\A m \in msgs :
          ( /\ RequestVoteReplyHandler(m)
            /\ state[m.to] = Candidate
            /\ elections[m.to][m.eid].term = currentTerm[m.to]
            /\ m.Term = currentTerm[m.to]
            /\ m.VoteGranted
            /\ (elections[m.to][m.eid].votes + 1) * 2 > N )
          => state'[m.to] = Leader]_vars

AppendEntriesStoresEntries ==
    [][\A m \in msgs :
          ( /\ AppendEntries(m)
            /\ state[m.to] # Dead
            /\ m.Term >= currentTerm[m.to]
            /\ ConsistencyCheck(log[m.to], m) )
          => LET n == m.to
                 first == m.PrevLogIndex + 1
                 last == m.PrevLogIndex + Len(m.Entries)
                 conflict == \E j \in first .. last :
                                 /\ j < Len(log[n])
                                 /\ EntryAt(log[n], j).Term
                                        # m.Entries[j - first + 1].Term
             IN  /\ \A j \in 0 .. m.PrevLogIndex :
                        /\ j < Len(log'[n])
                        /\ EntryAt(log'[n], j) = EntryAt(log[n], j)
                 /\ \A j \in first .. last :
                        /\ j < Len(log'[n])
                        /\ EntryAt(log'[n], j) = m.Entries[j - first + 1]
                 /\ ~conflict
                    => \A j \in (last + 1) .. (Len(log[n]) - 1) :
                           /\ j < Len(log'[n])
                           /\ EntryAt(log'[n], j) = EntryAt(log[n], j)
                 /\ conflict => Len(log'[n]) = last + 1]_vars

\* C26: on every node, in every reachable state,
\* -1 <= lastApplied <= commitIndex <= len(log) - 1.
AppliedCommitLogOrdered ==
    \A n \in Nodes :
        /\ -1 <= lastApplied[n]
        /\ lastApplied[n] <= commitIndex[n]
        /\ commitIndex[n] <= Len(log[n]) - 1

\* The background goroutines of node n have exited: the apply worker has left
\* its loop, no replication loop is left, and no election timer is live
WorkersExited(n) ==
    /\ worker[n] = "done"
    /\ aeLoops[n] = [waiting |-> 0, sending |-> 0, calling |-> 0]
    /\ state[n] \notin {Follower, Candidate}

\* C27: after Stop has been called on a node, its apply worker, its election
\* timer and its replication loop all exit in the end, whatever they were
\* doing when Stop was called.
StopEndsWorkers ==
    \A n \in Nodes : closed[n] ~> WorkersExited(n)

\* Whether node n has been a candidate of term t: startElection records the
\* election, and it is where the node votes for itself
VotedForItselfIn(n, t) ==
    \E i \in 1..Len(elections[n]) : elections[n][i].term = t

\* C28: a node that has voted for itself as the candidate of a term never
\* grants its vote to another node in that term: no step gives the node's vote
\* to another node in a term in which the node stood as a candidate
OneVotePerTerm ==
    [][\A n \in Nodes :
          (/\ votedFor'[n] # votedFor[n]
           /\ votedFor'[n] \notin {None, n})
          => ~VotedForItselfIn(n, currentTerm'[n])]_vars

\* C29: while a node is Leader, nextIndex of every other peer is within
\* 0..len(log) and matchIndex of every other peer is at most len(log) - 1
LeaderIndicesInRange ==
    \A n \in Nodes :
        state[n] = Leader =>
            \A p \in Nodes \ {n} :
                /\ nextIndex[n][p] >= 0
                /\ nextIndex[n][p] <= Len(log[n])
                /\ matchIndex[n][p] <= Len(log[n]) - 1

\* C30: a goroutine that blocks on a send to newCommitReadyChan or to
\* triggerAEChan while it holds cm.mu always completes the send in the end, so
\* that the mutex of its node is released
BlockedSendCompletes ==
    \A n \in Nodes : (held[n].on # "none") ~> (held[n].on = "none")

====
